---- MODULE Spec2Model ----
(***************************************************************************)
(* A model of the nanopng image pipeline (crate/src): the orchestrator     *)
(* process_image of lib.rs, the fit calculator, crop and resampler of      *)
(* resize.rs, the rotate/flip remaps of transform.rs and the filters of    *)
(* filters.rs.                                                             *)
(*                                                                         *)
(* A pixel buffer is a sequence of bytes (RGBA8, row-major), indexed from  *)
(* 1 here and from 0 in the source: source index i is data[i + 1].         *)
(***************************************************************************)
EXTENDS Integers, Sequences, FiniteSets, TLC

\* ------------------------------------------------------------------ bounds

\* Input images of the pipeline have at most this many pixels (and no side
\* longer than this).
MaxPixels == 4
\* Images of the transform specification have at most this many pixels.
MaxTPixels == 6
\* User crop regions have width and height in 0..MaxCrop.
MaxCrop == 3
\* Resize targets of the pipeline are in 0..MaxTarget.
MaxTarget == 2
\* Source sides of the fit calculator are in 0..MaxFitSrc, targets in
\* 0..MaxFitTarget,
MaxFitSrc == 5
MaxFitTarget == 6
\* and the sides and the target of the smallest case whose f64 product is
\* below the real one: 11 * (15 / 22) is 7.5, and 7.499... in f64.
TieSides == {11, 22}
TieTargets == {15}
\* Images given to the filters on their own have at most MaxFPixels pixels.
MaxFPixels == 9
\* and, when painted as a frame around an interior, sides of 3..MaxFrameSide.
MaxFrameSide == 4
\* BMP inputs carry 0..MaxBmpData bytes after the 54-byte header.
MaxBmpData == 16
\* Buffers given to the encoders on their own have 0..MaxEncLen bytes.
MaxEncLen == 17

\* ------------------------------------------------------- program constants

\* A u32 that can exceed 2^31 - 1 (the scaled sides of the fit calculator)
\* is kept as its two 16-bit halves <<hi, lo>>, its value being
\* hi * 65536 + lo.  ToU32 takes an integer of 0 .. 2^31 - 1 to this form,
\* Val takes a value below 2^31 back.
ToU32(n) == <<n \div 65536, n % 65536>>
Val(u) == u[1] * 65536 + u[2]

\* u32::MAX = 4294967295, the value a float-to-u32 cast saturates at.
U32Max == <<65535, 65535>>

\* a <= b on two u32 values.
U32Leq(a, b) == a[1] < b[1] \/ (a[1] = b[1] /\ a[2] <= b[2])

\* u32::max.
U32MaxOf(a, b) == IF U32Leq(a, b) THEN b ELSE a

\* The u32 division by 2.
U32Half(a) == <<a[1] \div 2, (a[1] % 2) * 32768 + (a[2] \div 2)>>

\* The mark of a byte that a convolution kernel of the resampling crate
\* computes.  The kernels' coefficients are the crate's and are not in the
\* source tree: the value of such a byte (one of 0..255) is not determined
\* here, and the mark is carried in its place through every operation that
\* copies the byte or computes another from it.
Convolved == -1

\* The colours the input images are painted with (R, G, B, A).
Palette == { <<0, 0, 0, 255>>, <<200, 100, 50, 255>> }

MinOf(a, b) == IF a <= b THEN a ELSE b
MaxOf(a, b) == IF a >= b THEN a ELSE b

\* An image value: a buffer and the dimensions carried with it.
Img(d, iw, ih) == [data |-> d, w |-> iw, h |-> ih]

\* The bytes of an image whose pixel p (0-based) has colour px[p + 1].
BytesOf(px) == [i \in 1..(4 * Len(px)) |-> px[((i - 1) \div 4) + 1][((i - 1) % 4) + 1]]

\* Every well-formed image (buffer length = w * h * 4) of at most n pixels
\* painted with the palette, the zero-area ones included.
ImagesUpTo(n) ==
  UNION { { Img(BytesOf(px), d[1], d[2]) : px \in [1..(d[1] * d[2]) -> Palette] } :
            d \in { e \in (0..n) \X (0..n) : e[1] * e[2] <= n } }

\* Two colours of the same RGB and different alpha.
AlphaPalette == { <<200, 100, 50, 255>>, <<200, 100, 50, 128>> }

\* The same images painted with the colours that differ in alpha only.
AlphaImagesUpTo(n) ==
  UNION { { Img(BytesOf(px), d[1], d[2]) : px \in [1..(d[1] * d[2]) -> AlphaPalette] } :
            d \in { e \in (0..n) \X (0..n) : e[1] * e[2] <= n } }

\* The images with sides of 3..n painted as a 1-pixel frame of one colour
\* around an interior of one colour (the same one for a uniform image).
FramedImages(n) ==
  { Img(BytesOf([p \in 1..(d[1] * d[2]) |->
                   LET x == (p - 1) % d[1]
                       y == (p - 1) \div d[1]
                   IN IF x = 0 \/ y = 0 \/ x = d[1] - 1 \/ y = d[2] - 1
                      THEN c[1] ELSE c[2]]), d[1], d[2]) :
      d \in (3..n) \X (3..n), c \in (Palette \cup AlphaPalette) \X (Palette \cup AlphaPalette) }

\* --------------------------------------------------- resize.rs: fit modes

\* The f64 quotient t as f64 / s as f64 of two u32 values below 2^15: +inf
\* (t > 0, s = 0), NaN (0 / 0) or the double nearest to t / s, which is
\* recorded by the fraction it was rounded from.
FDiv(t, s) ==
  IF s > 0 THEN [k |-> "fin", n |-> t, d |-> s]
  ELSE IF t > 0 THEN [k |-> "inf", n |-> 1, d |-> 0]
  ELSE [k |-> "nan", n |-> 0, d |-> 0]

\* a <= b on the non-NaN factors (rounding to the nearest double keeps the
\* order of two fractions, and distinct fractions of values below 2^15 are
\* distinct doubles).
FLeq(a, b) ==
  IF b.k = "inf" THEN TRUE
  ELSE IF a.k = "inf" THEN FALSE
  ELSE a.n * b.d <= b.n * a.d

\* f64::max and f64::min: a NaN operand is ignored.
FMax(a, b) ==
  IF a.k = "nan" THEN b ELSE IF b.k = "nan" THEN a
  ELSE IF FLeq(a, b) THEN b ELSE a
FMin(a, b) ==
  IF a.k = "nan" THEN b ELSE IF b.k = "nan" THEN a
  ELSE IF FLeq(a, b) THEN a ELSE b

\* floor(log2(a / b)) for a >= 1 and b in 1 .. 2^15 - 1 (a below 2^15 when
\* it is below b).
FloorLog2(a, b) ==
  IF a >= b THEN CHOOSE j \in 0..30 : 2^j <= a \div b /\ (a \div b) \div 2 < 2^j
  ELSE -(CHOOSE j \in 1..15 : a * 2^j >= b /\ a * 2^(j - 1) < b)

\* 2^k mod s.
RECURSIVE PowMod2(_, _)
PowMod2(k, s) == IF k = 0 THEN 1 % s ELSE (2 * PowMod2(k - 1, s)) % s

\* The f64 product n * (t / s) lies below the real product n * t / s when
\* that is k + 1/2 for an integer k (n, t, s in 1 .. 2^15 - 1).  The double
\* nearest to t / s has 53 significant bits: with 2^e1 <= t / s < 2^(e1+1)
\* it is t / s less r / s units of 2^(e1-52), r = t * 2^(52-e1) mod s, when
\* r / s < 1/2, and is above t / s when r / s > 1/2.  Multiplied by n, the
\* shortfall n * r / s * 2^(e1-52) moves the product to the double below
\* k + 1/2 when it exceeds half the gap between that double and k + 1/2, a
\* gap of 2^(e2-52) with 2^e2 <= k + 1/2 < 2^(e2+1) (2^(e2-53) for k = 0).
TieRoundsDown(n, t, s) ==
  LET e1 == FloorLog2(t, s)
      r == ((t % s) * PowMod2(52 - e1, s)) % s
      m == (2 * n * t) \div s
      e2 == FloorLog2(m, 2)
      gap == e2 - e1 - (IF m = 1 THEN 1 ELSE 0)
  IN r > 0 /\ 2 * r < s /\ 2 * n * r > s * 2^gap

\* (n as f64 * (t as f64 / s as f64)).round() for n, t in 0 .. 2^15 - 1 and
\* s in 1 .. 2^15 - 1: round half away from zero of the f64 product.  The
\* product is within 2^-22 of n * t / s, which is an integer plus 1/2 or at
\* least 2^-16 away from one, so the two round alike except when n * t / s
\* is an integer plus 1/2 and the f64 product is below it.
RoundedProduct(n, t, s) ==
  LET exact == (2 * n * t + s) \div (2 * s)
  IN IF n * t > 0 /\ (2 * n * t) % s = 0 /\ ((2 * n * t) \div s) % 2 = 1
          /\ TieRoundsDown(n, t, s)
     THEN exact - 1
     ELSE exact

\* (src as f64 * scale).round() as u32: the cast saturates (NaN, which
\* 0 * inf is too, becomes 0 and +inf becomes u32::MAX).
ScaleRound(src, scale) ==
  IF scale.k = "nan" THEN ToU32(0)
  ELSE IF scale.k = "inf" THEN (IF src = 0 THEN ToU32(0) ELSE U32Max)
  ELSE ToU32(RoundedProduct(src, scale.n, scale.d))

\* u32::saturating_sub.
SaturatingSub(a, b) ==
  IF U32Leq(b, a)
  THEN IF a[2] >= b[2] THEN <<a[1] - b[1], a[2] - b[2]>>
       ELSE <<a[1] - b[1] - 1, a[2] + 65536 - b[2]>>
  ELSE ToU32(0)

NoCrop == [some |-> FALSE, x |-> 0, y |-> 0, w |-> 0, h |-> 0]
SomeCrop(cx, cy, cw, ch) == [some |-> TRUE, x |-> cx, y |-> cy, w |-> cw, h |-> ch]

\* The cover arm with the crop left at the top-left corner.
FitCoverTopLeft(sw, sh, tw, th) ==
  LET scale == FMax(FDiv(tw, sw), FDiv(th, sh))
  IN [w |-> U32MaxOf(ScaleRound(sw, scale), ToU32(1)),
      h |-> U32MaxOf(ScaleRound(sh, scale), ToU32(1)),
      crop |-> SomeCrop(0, 0, tw, th)]

\* The cover arm with the smaller scale factor.
FitCoverMinScale(sw, sh, tw, th) ==
  LET scale == FMin(FDiv(tw, sw), FDiv(th, sh))
      scaled_w == ScaleRound(sw, scale)
      scaled_h == ScaleRound(sh, scale)
      crop_x == U32Half(SaturatingSub(scaled_w, ToU32(tw)))
      crop_y == U32Half(SaturatingSub(scaled_h, ToU32(th)))
  IN [w |-> U32MaxOf(scaled_w, ToU32(1)), h |-> U32MaxOf(scaled_h, ToU32(1)),
      crop |-> SomeCrop(Val(crop_x), Val(crop_y), tw, th)]

\* calculate_fit_dimensions, the "cover" arm.
FitCover(sw, sh, tw, th) ==
  LET scale == FMax(FDiv(tw, sw), FDiv(th, sh))
      scaled_w == ScaleRound(sw, scale)
      scaled_h == ScaleRound(sh, scale)
      crop_x == U32Half(SaturatingSub(scaled_w, ToU32(tw)))
      crop_y == U32Half(SaturatingSub(scaled_h, ToU32(th)))
  IN [w |-> U32MaxOf(scaled_w, ToU32(1)), h |-> U32MaxOf(scaled_h, ToU32(1)),
      crop |-> SomeCrop(Val(crop_x), Val(crop_y), tw, th)]

\* calculate_fit_dimensions, the "outside" arm.
FitOutside(sw, sh, tw, th) ==
  LET scale == FMax(FDiv(tw, sw), FDiv(th, sh))
  IN [w |-> U32MaxOf(ScaleRound(sw, scale), ToU32(1)),
      h |-> U32MaxOf(ScaleRound(sh, scale), ToU32(1)),
      crop |-> NoCrop]

\* The default arm with the larger scale factor.
FitContainMaxScale(sw, sh, tw, th) ==
  LET scale == FMax(FDiv(tw, sw), FDiv(th, sh))
  IN [w |-> U32MaxOf(ScaleRound(sw, scale), ToU32(1)),
      h |-> U32MaxOf(ScaleRound(sh, scale), ToU32(1)),
      crop |-> NoCrop]

\* The default arm without the floor at 1.
FitContainNoFloor(sw, sh, tw, th) ==
  LET scale == FMin(FDiv(tw, sw), FDiv(th, sh))
  IN [w |-> ScaleRound(sw, scale), h |-> ScaleRound(sh, scale), crop |-> NoCrop]

\* calculate_fit_dimensions, the default arm ("contain", "inside", any other
\* string).
FitContain(sw, sh, tw, th) ==
  LET scale == FMin(FDiv(tw, sw), FDiv(th, sh))
  IN [w |-> U32MaxOf(ScaleRound(sw, scale), ToU32(1)),
      h |-> U32MaxOf(ScaleRound(sh, scale), ToU32(1)),
      crop |-> NoCrop]

\* calculate_fit_dimensions, the "fill" arm.
FitFill(sw, sh, tw, th) == [w |-> ToU32(tw), h |-> ToU32(th), crop |-> NoCrop]

\* calculate_fit_dimensions: the match on the fit-mode string.
CalculateFitDimensions(sw, sh, tw, th, mode) ==
  CASE mode = "fill" -> FitFill(sw, sh, tw, th)
    [] mode = "cover" -> FitCover(sw, sh, tw, th)
    [] mode = "outside" -> FitOutside(sw, sh, tw, th)
    [] OTHER -> FitContain(sw, sh, tw, th)

\* The fit-mode strings the model passes: the four named ones, the alias
\* "inside" and one unrecognized string.
FitModes == {"fill", "cover", "outside", "contain", "inside", "bogus"}

\* ------------------------------------------------------ resize.rs: crop

\* crop_image, the byte offset at which the slice of source row `row` starts
\* (u32 arithmetic in the source; the model's values stay far below 2^32).
CropStart(width, x, row) == (row * width + x) * 4

\* crop_image aborts (the slice data[start..end] is out of range) when a
\* row's slice ends past the buffer.
CropPanics(d, width, x, y, cw, ch) ==
  \E row \in y..(y + ch - 1) : CropStart(width, x, row) + cw * 4 > Len(d)

\* crop_image with slices of crop_width bytes instead of crop_width * 4.
CropImageBytesForPixels(d, width, x, y, cw, ch) ==
  [i \in 1..(cw * ch) |->
     d[CropStart(width, x, y + ((i - 1) \div cw)) + ((i - 1) % cw) + 1]]

\* crop_image when no slice is out of range: the rows y .. y+ch-1, each the
\* cw*4 bytes that start at (row*width + x)*4.
CropImage(d, width, x, y, cw, ch) ==
  [i \in 1..(cw * ch * 4) |->
     d[CropStart(width, x, y + ((i - 1) \div (cw * 4))) + ((i - 1) % (cw * 4)) + 1]]

\* ------------------------------------------------- resize.rs: resampling

\* The kernel names the model passes: the four named ones, the default's
\* own name and one unrecognized string.
FilterNames == {"Nearest", "CatmullRom", "Mitchell", "Bilinear", "Lanczos3", "bogus"}

\* resize_image, the match on the filter name.
ResizeAlg(filter) ==
  CASE filter = "Nearest" -> "Nearest"
    [] filter = "CatmullRom" -> "CatmullRom"
    [] filter = "Mitchell" -> "Mitchell"
    [] filter = "Bilinear" -> "Bilinear"
    [] OTHER -> "Lanczos3"

\* MulDiv::multiply_alpha on one byte: c * a / 255 rounded to nearest.
MulDiv255(c, a) == LET tmp == c * a + 128 IN ((tmp \div 256) + tmp) \div 256

\* multiply_alpha: RGB scaled by alpha, alpha kept.
MultiplyAlpha(d) ==
  [i \in 1..Len(d) |->
     IF (i - 1) % 4 = 3 THEN d[i] ELSE MulDiv255(d[i], d[i + 3 - ((i - 1) % 4)])]

\* divide_alpha: RGB divided by alpha (0 when alpha is 0), clamped, alpha
\* kept; a byte computed from a convolved byte is one too.
DivideAlpha(d) ==
  [i \in 1..Len(d) |->
     IF (i - 1) % 4 = 3 THEN d[i]
     ELSE LET a == d[i + 3 - ((i - 1) % 4)]
          IN IF d[i] = Convolved \/ a = Convolved THEN Convolved
             ELSE IF a = 0 THEN 0 ELSE MinOf((2 * d[i] * 255 + a) \div (2 * a), 255)]

\* Resizer::resize of the resampling crate into the dw x dh destination
\* that resize_image created.  Under ResizeAlg::Nearest each destination
\* pixel is a point sample of the source at the centre of its cell; under
\* ResizeAlg::Convolution each byte is what the named kernel computes.
Resample(d, sw, sh, dw, dh, alg) ==
  [i \in 1..(dw * dh * 4) |->
     IF alg = "Nearest"
     THEN LET p == (i - 1) \div 4
              sx == MinOf(((2 * (p % dw) + 1) * sw) \div (2 * dw), sw - 1)
              sy == MinOf(((2 * (p \div dw) + 1) * sh) \div (2 * dh), sh - 1)
          IN d[(sy * sw + sx) * 4 + ((i - 1) % 4) + 1]
     ELSE Convolved]

\* What the calls into the resampling crate do in one call of resize_image:
\* all succeed ("ok"), or the named one returns an error (from_vec_u8 on a
\* buffer that is long enough included, e.g. on its alignment).
CrateOutcomes == {"ok", "from_vec_u8", "multiply_alpha", "resize", "divide_alpha"}

\* The message of the error resize_image returns when the named call fails.
CrateError(call) ==
  CASE call = "from_vec_u8" -> "Failed to create source image"
    [] call = "multiply_alpha" -> "Pre-multiply alpha failed"
    [] call = "resize" -> "Resize failed"
    [] call = "divide_alpha" -> "De-multiply alpha failed"

OkData(d) == [ok |-> TRUE, err |-> "", data |-> d]
ErrData(e) == [ok |-> FALSE, err |-> e, data |-> <<>>]

\* resize_image with the source left out of the dimension check: an empty
\* source gives the zeroed destination (of sides below 2^16).
ResizeImageDestinationCheckOnly(d, sw, sh, dw, dh, filter, crate) ==
  IF dw = ToU32(0) \/ dh = ToU32(0) THEN ErrData("Invalid dimensions")
  ELSE IF Len(d) < sw * sh * 4 THEN ErrData("Failed to create source image")
  ELSE IF crate # "ok" THEN ErrData(CrateError(crate))
  ELSE IF sw = 0 \/ sh = 0
  THEN IF dw[1] = 0 /\ dh[1] = 0 THEN OkData([i \in 1..(Val(dw) * Val(dh) * 4) |-> 0])
       ELSE ErrData("Failed to create source image")
  ELSE OkData(DivideAlpha(Resample(MultiplyAlpha(d), sw, sh, Val(dw), Val(dh),
                                   ResizeAlg(filter))))

\* resize_image with the destination left out of the dimension check.
ResizeImageSourceCheckOnly(d, sw, sh, dw, dh, filter, crate) ==
  IF sw = 0 \/ sh = 0 THEN ErrData("Invalid dimensions")
  ELSE IF Len(d) < sw * sh * 4 THEN ErrData("Failed to create source image")
  ELSE IF crate # "ok" THEN ErrData(CrateError(crate))
  ELSE OkData(DivideAlpha(Resample(MultiplyAlpha(d), sw, sh, Val(dw), Val(dh),
                                   ResizeAlg(filter))))

\* resize_image: the dimension check, the source wrapper (which needs at
\* least sw*sh*4 bytes and may reject the buffer for a reason of its own),
\* then premultiply, resample, un-premultiply, the
\* error of a crate call being returned by its `?`.  The destination sides
\* are u32 values in two halves; `crate` is what the crate's calls do.
ResizeImage(d, sw, sh, dw, dh, filter, crate) ==
  IF sw = 0 \/ sh = 0 \/ dw = ToU32(0) \/ dh = ToU32(0) THEN ErrData("Invalid dimensions")
  ELSE IF Len(d) < sw * sh * 4 THEN ErrData("Failed to create source image")
  ELSE IF crate # "ok" THEN ErrData(CrateError(crate))
  ELSE OkData(DivideAlpha(Resample(MultiplyAlpha(d), sw, sh, Val(dw), Val(dh),
                                   ResizeAlg(filter))))

\* ----------------------------------------------------------- transform.rs

\* The pixel coordinates (x, y) of a width x height image.
Coords(iw, ih) == (0..(iw - 1)) \X (0..(ih - 1))

\* src_idx of the remap loops: the byte offset of the pixel (x, y).
SrcIdx(iw, x, y) == (y * iw + x) * 4

\* The loops of the remaps below: the result starts as n zero bytes, and for
\* every source pixel q = (x, y) the four bytes at SrcIdx are copied to the
\* byte offset dst[q].
Remap(d, iw, ih, n, dst) ==
  LET from == [p \in 0..((n - 1) \div 4) |-> { q \in Coords(iw, ih) : dst[q] = 4 * p }]
  IN [i \in 1..n |->
        LET hits == from[(i - 1) \div 4]
        IN IF hits = {} THEN 0
           ELSE LET q == CHOOSE r \in hits : TRUE
                IN d[SrcIdx(iw, q[1], q[2]) + ((i - 1) % 4) + 1]]

\* rotate_90_cw: (x, y) goes to (height - 1 - y, x) of a height x width image.
Rotate90Cw(d, iw, ih) ==
  LET dst == [q \in Coords(iw, ih) |-> (q[1] * ih + (ih - 1 - q[2])) * 4]
  IN Img(Remap(d, iw, ih, ih * iw * 4, dst), ih, iw)

\* rotate_180: pixel i goes to total_pixels - 1 - i; same dimensions.
Rotate180(d, iw, ih) ==
  LET dst == [q \in Coords(iw, ih) |-> (iw * ih - 1 - (q[2] * iw + q[1])) * 4]
  IN Img(Remap(d, iw, ih, Len(d), dst), iw, ih)

\* rotate_270_cw turning the same way as rotate_90_cw.
Rotate270CwAsClockwise(d, iw, ih) ==
  LET dst == [q \in Coords(iw, ih) |-> (q[1] * ih + (ih - 1 - q[2])) * 4]
  IN Img(Remap(d, iw, ih, ih * iw * 4, dst), ih, iw)

\* rotate_270_cw: (x, y) goes to (y, width - 1 - x) of a height x width image.
Rotate270Cw(d, iw, ih) ==
  LET dst == [q \in Coords(iw, ih) |-> ((iw - 1 - q[1]) * ih + q[2]) * 4]
  IN Img(Remap(d, iw, ih, ih * iw * 4, dst), ih, iw)

\* flip_horizontal: (x, y) goes to (width - 1 - x, y).
FlipHorizontal(d, iw, ih) ==
  LET dst == [q \in Coords(iw, ih) |-> (q[2] * iw + (iw - 1 - q[1])) * 4]
  IN Img(Remap(d, iw, ih, Len(d), dst), iw, ih)

\* flip_vertical: row y goes to row height - 1 - y.
FlipVertical(d, iw, ih) ==
  LET dst == [q \in Coords(iw, ih) |-> ((ih - 1 - q[2]) * iw + q[1]) * 4]
  IN Img(Remap(d, iw, ih, Len(d), dst), iw, ih)

\* The rotate values the model passes: the three rotations, 0 and one value
\* that is none of them.
RotateValues == {0, 90, 180, 270, 45}

\* apply_transforms, the match on rotate.
RotateStep(im, rotate) ==
  CASE rotate = 90 -> Rotate90Cw(im.data, im.w, im.h)
    [] rotate = 180 -> Rotate180(im.data, im.w, im.h)
    [] rotate = 270 -> Rotate270Cw(im.data, im.w, im.h)
    [] OTHER -> im

\* apply_transforms, if flip_h.
FlipHStep(im, flip_h) == IF flip_h THEN FlipHorizontal(im.data, im.w, im.h) ELSE im

\* apply_transforms, if flip_v.
FlipVStep(im, flip_v) == IF flip_v THEN FlipVertical(im.data, im.w, im.h) ELSE im

\* apply_transforms with the flips applied before the rotation.
ApplyTransformsFlipsFirst(im, rotate, flip_h, flip_v) ==
  RotateStep(FlipVStep(FlipHStep(im, flip_h), flip_v), rotate)

\* apply_transforms: the rotation, then the horizontal flip, then the
\* vertical flip.
ApplyTransforms(im, rotate, flip_h, flip_v) ==
  FlipVStep(FlipHStep(RotateStep(im, rotate), flip_h), flip_v)

\* ------------------------------------------------------------- filters.rs

\* The sharpen amounts (an f32) are counted in quarters, which f32 holds
\* exactly: amount = q / 4.
AmountQuarters == {-4, 0, 1, 2, 4, 6}

\* sharpen, one RGB byte of an interior pixel: blended = center +
\* (5*center - top - bottom - left - right - center) * min(amount, 1),
\* clamped to 0..255 and truncated by the cast to u8.
SharpenByte(center, top, bottom, left, right, q) ==
  LET sharpened == 5 * center - top - bottom - left - right
      blended4 == 4 * center + (sharpened - center) * MinOf(q, 4)
  IN IF Convolved \in {center, top, bottom, left, right} THEN Convolved
     ELSE IF blended4 <= 0 THEN 0
     ELSE IF blended4 >= 4 * 255 THEN 255
     ELSE blended4 \div 4

\* sharpen with the alpha byte sharpened like the colour bytes.
SharpenAllChannels(d, iw, ih, q) ==
  IF q <= 0 \/ iw < 3 \/ ih < 3 THEN d
  ELSE [i \in 1..Len(d) |->
          LET p == (i - 1) \div 4
              c == (i - 1) % 4
              x == p % iw
              y == p \div iw
          IN IF p < iw * ih /\ 1 <= x /\ x < iw - 1 /\ 1 <= y /\ y < ih - 1
             THEN SharpenByte(d[i], d[((y - 1) * iw + x) * 4 + c + 1],
                              d[((y + 1) * iw + x) * 4 + c + 1],
                              d[(y * iw + x - 1) * 4 + c + 1],
                              d[(y * iw + x + 1) * 4 + c + 1], q)
             ELSE d[i]]

\* sharpen: the input when amount <= 0 or a side is under 3; otherwise the
\* RGB bytes of the interior pixels are sharpened from the input's bytes.
Sharpen(d, iw, ih, q) ==
  IF q <= 0 \/ iw < 3 \/ ih < 3 THEN d
  ELSE [i \in 1..Len(d) |->
          LET p == (i - 1) \div 4
              c == (i - 1) % 4
              x == p % iw
              y == p \div iw
          IN IF c < 3 /\ p < iw * ih /\ 1 <= x /\ x < iw - 1 /\ 1 <= y /\ y < ih - 1
             THEN SharpenByte(d[i], d[((y - 1) * iw + x) * 4 + c + 1],
                              d[((y + 1) * iw + x) * 4 + c + 1],
                              d[(y * iw + x - 1) * 4 + c + 1],
                              d[(y * iw + x + 1) * 4 + c + 1], q)
             ELSE d[i]]

AbsDiff(a, b) == IF a >= b THEN a - b ELSE b - a

\* The background estimate taken from the top-left corner alone.
BackgroundFirstCorner(d, iw, ih, c) == d[c + 1]

\* detect_content_bounds, the background estimate: per channel c (0..2) the
\* integer average of the four corner pixels.
Background(d, iw, ih, c) ==
  (d[c + 1] + d[(iw - 1) * 4 + c + 1] + d[((ih - 1) * iw) * 4 + c + 1]
     + d[((ih - 1) * iw + (iw - 1)) * 4 + c + 1]) \div 4

\* is_background with the alpha byte compared as well.
IsBackgroundWithAlpha(d, iw, ih, idx, threshold) ==
  \A c \in 0..3 : AbsDiff(d[idx + c + 1], Background(d, iw, ih, c)) <= threshold

\* is_background with a strict comparison against the threshold.
IsBackgroundStrict(d, iw, ih, idx, threshold) ==
  \A c \in 0..2 : AbsDiff(d[idx + c + 1], Background(d, iw, ih, c)) < threshold

\* detect_content_bounds, is_background of the pixel whose bytes start at idx.
IsBackground(d, iw, ih, idx, threshold) ==
  \A c \in 0..2 : AbsDiff(d[idx + c + 1], Background(d, iw, ih, c)) <= threshold

SetMin(S) == CHOOSE m \in S : \A o \in S : m <= o
SetMax(S) == CHOOSE m \in S : \A o \in S : m >= o

\* detect_content_bounds: None for a zero-area image, for an image that is
\* all background and for content that spans the whole image; otherwise the
\* bounding box of the pixels that are not background.
DetectContentBounds(d, iw, ih, threshold) ==
  IF iw = 0 \/ ih = 0 THEN NoCrop
  ELSE LET content == { q \in (0..(iw - 1)) \X (0..(ih - 1)) :
                          ~IsBackground(d, iw, ih, (q[2] * iw + q[1]) * 4, threshold) }
       IN IF content = {} THEN NoCrop
          ELSE LET min_x == SetMin({ q[1] : q \in content })
                   max_x == SetMax({ q[1] : q \in content })
                   min_y == SetMin({ q[2] : q \in content })
                   max_y == SetMax({ q[2] : q \in content })
                   crop_w == max_x - min_x + 1
                   crop_h == max_y - min_y + 1
               IN IF min_x = 0 /\ min_y = 0 /\ crop_w = iw /\ crop_h = ih THEN NoCrop
                  ELSE SomeCrop(min_x, min_y, crop_w, crop_h)

\* auto_trim: the image cropped to the detected bounds, or the input.
AutoTrim(d, iw, ih, threshold) ==
  LET b == DetectContentBounds(d, iw, ih, threshold)
  IN IF b.some THEN Img(CropImage(d, iw, b.x, b.y, b.w, b.h), b.w, b.h)
     ELSE Img(d, iw, ih)

\* The auto-trim thresholds (a u8) the model passes.
Thresholds == {0, 25, 120, 255}

\* blur: the sum of the bytes d[base + k * step + 1] for k in lo..hi, the
\* r_sum / g_sum / b_sum / a_sum of one averaging window.
RECURSIVE BoxSum(_, _, _, _, _)
BoxSum(d, base, step, lo, hi) ==
  IF lo > hi THEN 0 ELSE d[base + lo * step + 1] + BoxSum(d, base, step, lo + 1, hi)

\* blur, one pass over a buffer: each byte of the iw*ih pixels becomes the
\* integer average of its channel over the window of `radius` neighbours on
\* each side along the pass's axis, clipped to the image; bytes past the
\* image are kept.
BlurPass(d, iw, ih, radius, horizontal) ==
  [i \in 1..Len(d) |->
     LET p == (i - 1) \div 4
         c == (i - 1) % 4
         x == p % iw
         y == p \div iw
     IN IF p >= iw * ih THEN d[i]
        ELSE IF horizontal
        THEN LET lo == MaxOf(0, x - radius)
                 hi == MinOf(iw - 1, x + radius)
             IN BoxSum(d, (y * iw) * 4 + c, 4, lo, hi) \div (hi - lo + 1)
        ELSE LET lo == MaxOf(0, y - radius)
                 hi == MinOf(ih - 1, y + radius)
             IN BoxSum(d, x * 4 + c, iw * 4, lo, hi) \div (hi - lo + 1)]

\* blur with the early return on the radius alone.
BlurRadiusCheckOnly(d, iw, ih, radius) ==
  IF radius = 0 THEN d
  ELSE BlurPass(BlurPass(d, iw, ih, MinOf(radius, 50), TRUE), iw, ih, MinOf(radius, 50), FALSE)

\* blur: the input when radius is 0 or a side is under 3; otherwise the
\* horizontal pass on the input, then the vertical pass on its result, with
\* the radius capped at 50.
Blur(d, iw, ih, radius) ==
  IF radius = 0 \/ iw < 3 \/ ih < 3 THEN d
  ELSE BlurPass(BlurPass(d, iw, ih, MinOf(radius, 50), TRUE), iw, ih, MinOf(radius, 50), FALSE)

\* The blur radii (a u32) the model passes; the last is above the cap.
Radii == {0, 1, 2, 60}

\* ----------------------------------------------------------- codecs/*.rs

Formats == {"Jpeg", "Png", "Avif"}

NoResult == [tag |-> "none", err |-> "", bytes |-> FALSE]
OkBytes == [tag |-> "ok", err |-> "", bytes |-> TRUE]
ErrResult(e) == [tag |-> "err", err |-> e, bytes |-> FALSE]
Panicked == [tag |-> "panic", err |-> "", bytes |-> FALSE]

\* What an external codec does with the buffer it is handed: it returns
\* bytes ("ok"), returns an error ("err") or panics ("panic").
CodecOutcomes == {"ok", "err", "panic"}

\* How the build treats a panic: it unwinds the stack, so that catch_unwind
\* stops it, or it aborts at once (the strategy of wasm32-unknown-unknown,
\* the target of this wasm_bindgen library), so that nothing catches it.
PanicStrategies == {"unwind", "abort"}

\* encode_png: the two length checks, then the png / imagequant encoders;
\* their error is returned with a message, their panic is not caught.
EncodePng(d, iw, ih, codec) ==
  IF Len(d) % 4 # 0 THEN ErrResult("Invalid RGBA data length")
  ELSE IF Len(d) # iw * ih * 4 THEN ErrResult("Data length doesn't match")
  ELSE CASE codec = "ok" -> OkBytes
         [] codec = "err" -> ErrResult("PNG encoding failed")
         [] OTHER -> Panicked

\* encode_jpeg: mozjpeg under catch_unwind, which turns a panic into an
\* error in a build whose panics unwind and catches nothing in a build
\* whose panics abort; no length check of its own.
EncodeJpeg(d, iw, ih, codec, panicStrategy) ==
  CASE codec = "ok" -> OkBytes
    [] codec = "err" -> ErrResult("JPEG encoding error")
    [] OTHER -> IF panicStrategy = "unwind" THEN ErrResult("JPEG encoding panic")
                ELSE Panicked

\* encode_avif: ravif; no length check of its own, and a panic of the
\* codec is not caught.
EncodeAvif(d, iw, ih, codec) ==
  CASE codec = "ok" -> OkBytes
    [] codec = "err" -> ErrResult("AVIF encoding failed")
    [] OTHER -> Panicked

\* process_image, the match on config.format.
Encode(format, d, iw, ih, codec, panicStrategy) ==
  CASE format = "Jpeg" -> EncodeJpeg(d, iw, ih, codec, panicStrategy)
    [] format = "Png" -> EncodePng(d, iw, ih, codec)
    [] OTHER -> EncodeAvif(d, iw, ih, codec)

\* --------------------------------------------------------- codecs/bmp.rs

\* What decode_bmp returns: Ok((rgba, width, height_abs)), Err(message), or
\* no value at all when the call panics.
BmpOk(px, iw, ih) == [tag |-> "ok", err |-> "", pixels |-> px, w |-> iw, h |-> ih]
BmpErr(e) == [tag |-> "err", err |-> e, pixels |-> <<>>, w |-> 0, h |-> 0]
BmpPanic == [tag |-> "panic", err |-> "", pixels |-> <<>>, w |-> 0, h |-> 0]

\* u16::from_le_bytes / u32::from_le_bytes of the bytes at offset off
\* (0-based).  The u32 fields of the model's inputs stay below 2^31.
U16Le(d, off) == d[off + 1] + 256 * d[off + 2]
U32Le(d, off) == d[off + 1] + 256 * d[off + 2] + 65536 * d[off + 3] + 16777216 * d[off + 4]

\* i32::from_le_bytes: two's complement.
I32Le(d, off) ==
  d[off + 1] + 256 * d[off + 2] + 65536 * d[off + 3]
    + 16777216 * (IF d[off + 4] >= 128 THEN d[off + 4] - 256 ELSE d[off + 4])

\* i32::unsigned_abs.
UnsignedAbs(v) == IF v < 0 THEN -v ELSE v

\* is_bmp: at least two bytes, the first two being "BM".
IsBmp(d) == Len(d) >= 2 /\ d[1] = 66 /\ d[2] = 77

\* The number of 4-byte pixels in 2^32 bytes: a u32 byte count wraps when
\* the pixel count reaches it.
U32Pixels == 1073741824

\* decode_bmp, the test `src_idx + bytes_per_pixel > data.len()` for the pixel
\* x of the stored row src_y, with src_idx = data_offset + src_y * row_size
\* + x * bytes_per_pixel.  A row that starts past the input is decided from
\* src_y alone, which keeps the product small.
BmpTruncated(d, data_offset, row_size, bytes_per_pixel, src_y, x) ==
  IF row_size > 0 /\ src_y > Len(d) \div row_size THEN TRUE
  ELSE data_offset + src_y * row_size + x * bytes_per_pixel + bytes_per_pixel > Len(d)

\* The stored row read for output row y, always taken bottom-up.
BmpSrcYAlwaysBottomUp(is_top_down, height_abs, y) == height_abs - 1 - y

\* decode_bmp, src_y: the stored row that output row y is read from.
BmpSrcY(is_top_down, height_abs, y) == IF is_top_down THEN y ELSE height_abs - 1 - y

\* decode_bmp, the pixel loops.  The loops visit the pixels in row-major
\* order of the output and stop at the first pixel that is truncated in the
\* input ("BMP data truncated"), else has an unsupported depth, else is
\* written past the end of rgba (a panic: rgba has width * height_abs * 4
\* bytes in u32 arithmetic, which wraps when overflow checks are off and
\* panics when they are on).  With an input of n bytes a stop, if there is
\* one, happens at a pixel with x <= n and y <= n, so only those are visited.
BmpPixels(d, data_offset, width, height_abs, is_top_down, bits, overflowChecks) ==
  LET bytes_per_pixel == bits \div 8
      row_size == ((width * bytes_per_pixel + 3) \div 4) * 4
      total == width * height_abs
      rgba_pixels == total % U32Pixels
      SrcIdxOf(y, x) == data_offset + BmpSrcY(is_top_down, height_abs, y) * row_size
                          + x * bytes_per_pixel
      Stop(y, x) ==
        IF BmpTruncated(d, data_offset, row_size, bytes_per_pixel,
                        BmpSrcY(is_top_down, height_abs, y), x) THEN "truncated"
        ELSE IF bits # 24 /\ bits # 32 THEN "depth"
        ELSE IF y * width + x >= rgba_pixels THEN "panic"
        ELSE "none"
      visited == (0..(MinOf(height_abs, Len(d) + 1) - 1)) \X (0..(MinOf(width, Len(d) + 1) - 1))
      stops == { q \in visited : Stop(q[1], q[2]) # "none" }
      first == CHOOSE q \in stops :
                 \A o \in stops : q[1] < o[1] \/ (q[1] = o[1] /\ q[2] <= o[2])
  IN IF overflowChecks /\ total >= U32Pixels THEN BmpPanic
     ELSE IF stops # {}
     THEN CASE Stop(first[1], first[2]) = "truncated" -> BmpErr("BMP data truncated")
            [] Stop(first[1], first[2]) = "depth" -> BmpErr("Unsupported BMP bit depth")
            [] OTHER -> BmpPanic
     ELSE BmpOk([i \in 1..(total * 4) |->
                   LET p == (i - 1) \div 4
                       c == (i - 1) % 4
                       src_idx == SrcIdxOf(p \div width, p % width)
                   IN CASE c = 0 -> d[src_idx + 2 + 1]
                        [] c = 1 -> d[src_idx + 1 + 1]
                        [] c = 2 -> d[src_idx + 1]
                        [] OTHER -> IF bits = 24 THEN 255 ELSE d[src_idx + 3 + 1]],
                width, height_abs)

\* decode_bmp with the magic bytes checked before the length.
DecodeBmpMagicFirst(d, overflowChecks) ==
  IF ~IsBmp(d) THEN BmpErr("Not a valid BMP file")
  ELSE IF Len(d) < 54 THEN BmpErr("BMP file too small")
  ELSE IF U32Le(d, 30) # 0 /\ U32Le(d, 30) # 3 THEN BmpErr("Unsupported BMP compression")
  ELSE BmpPixels(d, U32Le(d, 10), UnsignedAbs(I32Le(d, 18)), UnsignedAbs(I32Le(d, 22)),
                 I32Le(d, 22) < 0, U16Le(d, 28), overflowChecks)

\* decode_bmp: the length check, the magic check, the header fields, the
\* compression check, then the pixel loops.
DecodeBmp(d, overflowChecks) ==
  IF Len(d) < 54 THEN BmpErr("BMP file too small")
  ELSE IF ~IsBmp(d) THEN BmpErr("Not a valid BMP file")
  ELSE IF U32Le(d, 30) # 0 /\ U32Le(d, 30) # 3 THEN BmpErr("Unsupported BMP compression")
  ELSE BmpPixels(d, U32Le(d, 10), UnsignedAbs(I32Le(d, 18)), UnsignedAbs(I32Le(d, 22)),
                 I32Le(d, 22) < 0, U16Le(d, 28), overflowChecks)

\* The bytes of a u16, a u32 (below 2^31) and an i32 in little-endian order.
U16Bytes(v) == <<v % 256, (v \div 256) % 256>>
U32Bytes(v) == <<v % 256, (v \div 256) % 256, (v \div 65536) % 256, (v \div 16777216) % 256>>
I32Bytes(v) == IF v >= 0 THEN U32Bytes(v) ELSE [k \in 1..4 |-> 255 - U32Bytes(-v - 1)[k]]

\* A BMP input: the 54 header bytes with the fields decode_bmp reads at
\* their offsets (magic 0, data offset 10, width 18, height 22, bits per
\* pixel 28, compression 30), then the bytes after the header.
BmpFile(magic, data_offset, width, height, bits, compression, rest) ==
  magic \o <<0, 0, 0, 0, 0, 0, 0, 0>> \o U32Bytes(data_offset) \o U32Bytes(40)
    \o I32Bytes(width) \o I32Bytes(height) \o U16Bytes(1) \o U16Bytes(bits)
    \o U32Bytes(compression) \o [i \in 1..20 |-> 0] \o rest

\* n bytes after the header, all different.
PixelRamp(n) == [i \in 1..n |-> (i * 37 + 5) % 256]

\* A header side so large that width * height * 4 reaches 2^32.
BigSide == 32768

\* "BM", "PN", "B\0" and "\0M".
Magics == { <<66, 77>>, <<80, 78>>, <<66, 0>>, <<0, 77>> }
BmpWidths == {-1, 0, 1, 2, BigSide}
BmpHeights == {-BigSide, -2, -1, 0, 1, 2, BigSide}
BmpDepths == {1, 8, 24, 32}

\* The inputs of decode_bmp: well-formed headers of every geometry, depth
\* and accepted compression with every length of data after them; the 1x1
\* 24-bit image of one red pixel; headers with other magic bytes and
\* compressions; and inputs cut short of the header.
BmpInputs ==
  LET full == { BmpFile(<<66, 77>>, off, wd, ht, bits, comp, PixelRamp(n)) :
                  off \in {54, 58}, wd \in BmpWidths, ht \in BmpHeights,
                  bits \in BmpDepths, comp \in {0, 3}, n \in 0..MaxBmpData }
      red == { BmpFile(<<66, 77>>, 54, 1, ht, 24, 0, rest) :
                 ht \in {1, -1}, rest \in { <<0, 0, 255>>, <<0, 0, 255, 0>> } }
      others == { BmpFile(magic, 54, 1, 1, bits, comp, PixelRamp(4)) :
                    magic \in Magics, bits \in {8, 24}, comp \in {0, 1, 2, 3} }
      short == { SubSeq(f, 1, k) : f \in others, k \in {0, 1, 2, 3, 53} }
  IN full \cup red \cup others \cup short

\* ------------------------------------------------ lib.rs: process_image

VARIABLES
  pc,      \* the statement of process_image that runs next
  stage,   \* the last stage that ran ("none" before the first)
  data,    \* the current buffer (trimmed_data, cropped_data, current_data, ...)
  w,       \* the width carried with it
  h,       \* the height carried with it
  fit,     \* (scaled_w, scaled_h, crop_region) while the resize block runs
  result,  \* what process_image returned
  inb,     \* history: every crop region so far lay inside the current image
           \* and every resize target so far was positive
  fitIn,   \* the arguments of calculate_fit_dimensions
  fitOut,  \* its result
  tImg,    \* the image the transform functions are applied to
  tPrev,   \* the image before the last transform
  tOp,     \* the last transform applied and its arguments
  flt,     \* a call of a filters.rs function: its image, arguments and result
  bmp,     \* a call of decode_bmp: the input bytes, the build and the result
  rsz,     \* a call of resize_image: its arguments, position, buffers and steps
  enc      \* a call of an encoder: its arguments and result

vars == <<pc, stage, data, w, h, fit, result, inb, fitIn, fitOut, tImg, tPrev, tOp,
          flt, bmp, rsz, enc>>
pipeVars == <<pc, stage, data, w, h, fit, result, inb>>
fitVars == <<fitIn, fitOut>>
tVars == <<tImg, tPrev, tOp>>
xVars == <<flt, bmp, rsz, enc>>

FitIdle == [w |-> ToU32(0), h |-> ToU32(0), crop |-> NoCrop]

\* The variables of the pure-function specifications while the pipeline runs,
\* and the pipeline's while they run.
FitUnused ==
  /\ fitIn = [sw |-> 1, sh |-> 1, tw |-> 1, th |-> 1, mode |-> "fill", done |-> FALSE]
  /\ fitOut = FitIdle
TransformUnused ==
  /\ tImg = Img(<<>>, 0, 0)
  /\ tPrev = Img(<<>>, 0, 0)
  /\ tOp = <<"none">>
FilterUnused == flt = [op |-> <<"unused">>]
BmpUnused == bmp = [op |-> "unused"]
ResizeUnused == rsz = [pc |-> "unused"]
EncodeUnused == enc = [op |-> "unused"]
OthersUnused == FilterUnused /\ BmpUnused /\ ResizeUnused /\ EncodeUnused
PipelineUnused ==
  /\ pc = "idle"
  /\ stage = "none"
  /\ data = <<>>
  /\ w = 0
  /\ h = 0
  /\ fit = FitIdle
  /\ result = NoResult
  /\ inb = TRUE

\* The stages with sharpen moved before the transforms.
StageOrderSharpenFirst ==
  <<"auto_trim", "crop", "fit", "resample", "fit_crop",
    "sharpen", "rotate", "flip_h", "flip_v", "encode">>
\* The order of the stages in process_image (and, for rotate and the flips,
\* in apply_transforms).
StageOrder ==
  <<"auto_trim", "crop", "fit", "resample", "fit_crop",
    "rotate", "flip_h", "flip_v", "sharpen", "encode">>

\* The statement after stage p.
After(p) ==
  LET i == CHOOSE k \in 1..Len(StageOrder) : StageOrder[k] = p
  IN IF i = Len(StageOrder) THEN "done" ELSE StageOrder[i + 1]

\* The user crop regions the model passes.
CropRegions == { SomeCrop(x, y, cw, ch) : x \in 0..1, y \in 0..1, cw \in 0..MaxCrop, ch \in 0..MaxCrop }

\* The reasons for which the configuration value does not deserialize, by
\* the constructor of serde::de::Error that makes the error: a required
\* field is missing or given twice, a name is no variant of Format, a value
\* is outside what its field accepts, a value (a field's, or the
\* configuration itself) is not of the type expected, a sequence or a
\* variant map has the wrong number of entries, or the deserializer gives a
\* message of its own ("custom", e.g. a BigInt outside the 64-bit range).
\* The structs do not deny unknown fields, so an unknown field is ignored
\* and is no error.
ConfigErrors ==
  {"missing field", "duplicate field", "unknown variant", "invalid value",
   "invalid type", "invalid length", "custom"}

\* lib.rs 98: the configuration is deserialized; the deserializer's error
\* is returned by `?` before any stage runs.
ConfigStage ==
  /\ pc = "config"
  /\ \/ /\ pc' = StageOrder[1]
        /\ UNCHANGED result
     \/ \E e \in ConfigErrors :
          /\ pc' = "failed"
          /\ result' = ErrResult(e)
  /\ UNCHANGED <<stage, data, w, h, fit, inb, fitVars, tVars, xVars>>

\* lib.rs 100-105: auto-trim if enabled.
AutoTrimStage ==
  /\ pc = "auto_trim"
  /\ \/ \E threshold \in Thresholds :
          LET r == AutoTrim(data, w, h, threshold)
          IN /\ data' = r.data
             /\ w' = r.w
             /\ h' = r.h
             /\ stage' = "auto_trim"
     \/ UNCHANGED <<data, w, h, stage>>
  /\ pc' = After("auto_trim")
  /\ UNCHANGED <<fit, result, inb, fitVars, tVars, xVars>>

\* lib.rs 107-121: the user crop if specified.
CropStage ==
  /\ pc = "crop"
  /\ \/ \E c \in CropRegions :
          /\ stage' = "crop"
          /\ inb' = (inb /\ c.x + c.w <= w /\ c.y + c.h <= h)
          /\ IF CropPanics(data, w, c.x, c.y, c.w, c.h)
             THEN /\ pc' = "panicked"
                  /\ result' = Panicked
                  /\ UNCHANGED <<data, w, h>>
             ELSE /\ pc' = After("crop")
                  /\ data' = CropImage(data, w, c.x, c.y, c.w, c.h)
                  /\ w' = c.w
                  /\ h' = c.h
                  /\ UNCHANGED result
     \/ /\ pc' = After("crop")
        /\ UNCHANGED <<data, w, h, stage, result, inb>>
  /\ UNCHANGED <<fit, fitVars, tVars, xVars>>

\* lib.rs 128-136: the fit calculation if a resize is specified; 159-163
\* otherwise.
FitStage ==
  /\ pc = "fit"
  /\ \/ \E tw \in 0..MaxTarget, th \in 0..MaxTarget, mode \in FitModes :
          /\ fit' = CalculateFitDimensions(w, h, tw, th, mode)
          /\ inb' = (inb /\ tw > 0 /\ th > 0)
          /\ stage' = "fit"
          /\ pc' = After("fit")
     \/ /\ pc' = After("fit_crop")
        /\ UNCHANGED <<fit, inb, stage>>
  /\ UNCHANGED <<data, w, h, result, fitVars, tVars, xVars>>

\* lib.rs 138-147: resize_image, its error returned by `?`.
ResampleStage ==
  /\ pc = "resample"
  /\ \E filter \in {"Nearest", "Lanczos3", "bogus"}, crate \in CrateOutcomes :
       LET r == ResizeImage(data, w, h, fit.w, fit.h, filter, crate)
       IN IF r.ok
          THEN /\ data' = r.data
               /\ w' = Val(fit.w)
               /\ h' = Val(fit.h)
               /\ pc' = After("resample")
               /\ UNCHANGED result
          ELSE /\ pc' = "failed"
               /\ result' = ErrResult(r.err)
               /\ UNCHANGED <<data, w, h>>
  /\ stage' = "resample"
  /\ UNCHANGED <<fit, inb, fitVars, tVars, xVars>>

\* lib.rs 149-158: the crop of the fit mode, if it gave a region.
FitCropStage ==
  /\ pc = "fit_crop"
  /\ \/ /\ fit.crop.some
        /\ stage' = "fit_crop"
        /\ IF CropPanics(data, Val(fit.w), fit.crop.x, fit.crop.y, fit.crop.w, fit.crop.h)
           THEN /\ pc' = "panicked"
                /\ result' = Panicked
                /\ UNCHANGED <<data, w, h>>
           ELSE /\ pc' = After("fit_crop")
                /\ data' = CropImage(data, Val(fit.w), fit.crop.x, fit.crop.y,
                                      fit.crop.w, fit.crop.h)
                /\ w' = fit.crop.w
                /\ h' = fit.crop.h
                /\ UNCHANGED result
     \/ /\ ~fit.crop.some
        /\ pc' = After("fit_crop")
        /\ UNCHANGED <<data, w, h, stage, result>>
  /\ fit' = FitIdle
  /\ UNCHANGED <<inb, fitVars, tVars, xVars>>

\* transform.rs 90-107: the rotation.
RotateStage ==
  /\ pc = "rotate"
  /\ \E rotate \in RotateValues :
       LET r == RotateStep(Img(data, w, h), rotate)
       IN /\ data' = r.data
          /\ w' = r.w
          /\ h' = r.h
          /\ stage' = IF rotate \in {90, 180, 270} THEN "rotate" ELSE stage
  /\ pc' = After("rotate")
  /\ UNCHANGED <<fit, result, inb, fitVars, tVars, xVars>>

\* transform.rs 110-112: the horizontal flip.
FlipHStage ==
  /\ pc = "flip_h"
  /\ \E flip_h \in BOOLEAN :
       LET r == FlipHStep(Img(data, w, h), flip_h)
       IN /\ data' = r.data
          /\ stage' = IF flip_h THEN "flip_h" ELSE stage
  /\ pc' = After("flip_h")
  /\ UNCHANGED <<w, h, fit, result, inb, fitVars, tVars, xVars>>

\* transform.rs 113-115: the vertical flip.
FlipVStage ==
  /\ pc = "flip_v"
  /\ \E flip_v \in BOOLEAN :
       LET r == FlipVStep(Img(data, w, h), flip_v)
       IN /\ data' = r.data
          /\ stage' = IF flip_v THEN "flip_v" ELSE stage
  /\ pc' = After("flip_v")
  /\ UNCHANGED <<w, h, fit, result, inb, fitVars, tVars, xVars>>

\* lib.rs 175-180: sharpen if config.sharpen > 0.
SharpenStage ==
  /\ pc = "sharpen"
  /\ \E q \in AmountQuarters :
       IF q > 0
       THEN /\ data' = Sharpen(data, w, h, q)
            /\ stage' = "sharpen"
       ELSE UNCHANGED <<data, stage>>
  /\ pc' = After("sharpen")
  /\ UNCHANGED <<w, h, fit, result, inb, fitVars, tVars, xVars>>

\* lib.rs 182-211: the encoder of config.format; its result is returned, and
\* a panic it does not catch ends the call.  The panic strategy of the
\* build matters to this stage only.
EncodeStage ==
  /\ pc = "encode"
  /\ \E format \in Formats, codec \in CodecOutcomes, panicStrategy \in PanicStrategies :
       LET r == Encode(format, data, w, h, codec, panicStrategy)
       IN /\ result' = r
          /\ pc' = CASE r.tag = "ok" -> After("encode")
                     [] r.tag = "panic" -> "panicked"
                     [] OTHER -> "failed"
  /\ stage' = "encode"
  /\ UNCHANGED <<data, w, h, fit, inb, fitVars, tVars, xVars>>

\* The call of process_image with its arguments, the configuration not yet
\* deserialized.
Init ==
  /\ pc = "config"
  /\ stage = "none"
  /\ \E im \in ImagesUpTo(MaxPixels) :
       /\ data = im.data
       /\ w = im.w
       /\ h = im.h
  /\ fit = FitIdle
  /\ result = NoResult
  /\ inb = TRUE
  /\ FitUnused
  /\ TransformUnused
  /\ OthersUnused

Next ==
  \/ ConfigStage
  \/ AutoTrimStage
  \/ CropStage
  \/ FitStage
  \/ ResampleStage
  \/ FitCropStage
  \/ RotateStage
  \/ FlipHStage
  \/ FlipVStage
  \/ SharpenStage
  \/ EncodeStage

Spec == Init /\ [][Next]_vars

\* ------------------------------------- calculate_fit_dimensions on its own

InitFit ==
  /\ PipelineUnused
  /\ TransformUnused
  /\ OthersUnused
  /\ \E sw \in (0..MaxFitSrc) \cup TieSides, sh \in (0..MaxFitSrc) \cup TieSides,
        tw \in (0..MaxFitTarget) \cup TieTargets, th \in (0..MaxFitTarget) \cup TieTargets,
        mode \in FitModes :
       fitIn = [sw |-> sw, sh |-> sh, tw |-> tw, th |-> th, mode |-> mode, done |-> FALSE]
  /\ fitOut = FitIdle

\* One call of calculate_fit_dimensions on the drawn arguments.
Calculate ==
  /\ ~fitIn.done
  /\ fitOut' = CalculateFitDimensions(fitIn.sw, fitIn.sh, fitIn.tw, fitIn.th, fitIn.mode)
  /\ fitIn' = [fitIn EXCEPT !.done = TRUE]
  /\ UNCHANGED <<pipeVars, tVars, xVars>>

NextFit == Calculate

SpecFit == InitFit /\ [][NextFit]_vars

\* ------------------------------------------ the transforms on their own

\* Each behaviour draws an image and applies one of the functions to it.
InitTransform ==
  /\ PipelineUnused
  /\ FitUnused
  /\ OthersUnused
  /\ tImg \in ImagesUpTo(MaxTPixels)
  /\ tPrev = tImg
  /\ tOp = <<"none">>

TRotate90 ==
  /\ tOp = <<"none">>
  /\ tImg' = Rotate90Cw(tImg.data, tImg.w, tImg.h)
  /\ tPrev' = tImg
  /\ tOp' = <<"rotate_90_cw">>
  /\ UNCHANGED <<pipeVars, fitVars, xVars>>

TRotate180 ==
  /\ tOp = <<"none">>
  /\ tImg' = Rotate180(tImg.data, tImg.w, tImg.h)
  /\ tPrev' = tImg
  /\ tOp' = <<"rotate_180">>
  /\ UNCHANGED <<pipeVars, fitVars, xVars>>

TRotate270 ==
  /\ tOp = <<"none">>
  /\ tImg' = Rotate270Cw(tImg.data, tImg.w, tImg.h)
  /\ tPrev' = tImg
  /\ tOp' = <<"rotate_270_cw">>
  /\ UNCHANGED <<pipeVars, fitVars, xVars>>

TFlipHorizontal ==
  /\ tOp = <<"none">>
  /\ tImg' = FlipHorizontal(tImg.data, tImg.w, tImg.h)
  /\ tPrev' = tImg
  /\ tOp' = <<"flip_horizontal">>
  /\ UNCHANGED <<pipeVars, fitVars, xVars>>

TFlipVertical ==
  /\ tOp = <<"none">>
  /\ tImg' = FlipVertical(tImg.data, tImg.w, tImg.h)
  /\ tPrev' = tImg
  /\ tOp' = <<"flip_vertical">>
  /\ UNCHANGED <<pipeVars, fitVars, xVars>>

TApplyTransforms ==
  /\ tOp = <<"none">>
  /\ \E rotate \in RotateValues, flip_h \in BOOLEAN, flip_v \in BOOLEAN :
       /\ tImg' = ApplyTransforms(tImg, rotate, flip_h, flip_v)
       /\ tOp' = <<"apply_transforms", rotate, flip_h, flip_v>>
  /\ tPrev' = tImg
  /\ UNCHANGED <<pipeVars, fitVars, xVars>>

NextTransform ==
  \/ TRotate90
  \/ TRotate180
  \/ TRotate270
  \/ TFlipHorizontal
  \/ TFlipVertical
  \/ TApplyTransforms

SpecTransform == InitTransform /\ [][NextTransform]_vars

\* -------------------------------------------- the filters on their own

\* Each behaviour draws a well-formed image and applies one of the
\* functions of filters.rs to it.
InitFilter ==
  /\ PipelineUnused
  /\ FitUnused
  /\ TransformUnused
  /\ BmpUnused
  /\ ResizeUnused
  /\ EncodeUnused
  /\ \E im \in ImagesUpTo(MaxFPixels) \cup AlphaImagesUpTo(MaxFPixels)
                  \cup FramedImages(MaxFrameSide) :
       flt = [op |-> <<"none">>, img |-> im, out |-> im, bounds |-> NoCrop]

FBlur ==
  /\ flt.op = <<"none">>
  /\ \E radius \in Radii :
       flt' = [flt EXCEPT !.op = <<"blur", radius>>,
                          !.out = Img(Blur(flt.img.data, flt.img.w, flt.img.h, radius),
                                      flt.img.w, flt.img.h)]
  /\ UNCHANGED <<pipeVars, fitVars, tVars, bmp, rsz, enc>>

FSharpen ==
  /\ flt.op = <<"none">>
  /\ \E q \in AmountQuarters :
       flt' = [flt EXCEPT !.op = <<"sharpen", q>>,
                          !.out = Img(Sharpen(flt.img.data, flt.img.w, flt.img.h, q),
                                      flt.img.w, flt.img.h)]
  /\ UNCHANGED <<pipeVars, fitVars, tVars, bmp, rsz, enc>>

FDetectContentBounds ==
  /\ flt.op = <<"none">>
  /\ \E threshold \in Thresholds :
       flt' = [flt EXCEPT !.op = <<"detect_content_bounds", threshold>>,
                          !.bounds = DetectContentBounds(flt.img.data, flt.img.w,
                                                         flt.img.h, threshold)]
  /\ UNCHANGED <<pipeVars, fitVars, tVars, bmp, rsz, enc>>

FAutoTrim ==
  /\ flt.op = <<"none">>
  /\ \E threshold \in Thresholds :
       flt' = [flt EXCEPT !.op = <<"auto_trim", threshold>>,
                          !.out = AutoTrim(flt.img.data, flt.img.w, flt.img.h, threshold)]
  /\ UNCHANGED <<pipeVars, fitVars, tVars, bmp, rsz, enc>>

NextFilter ==
  \/ FBlur
  \/ FSharpen
  \/ FDetectContentBounds
  \/ FAutoTrim

SpecFilter == InitFilter /\ [][NextFilter]_vars

\* ------------------------------------------------ decode_bmp on its own

\* Each behaviour draws an input and decodes it once, in a build with or
\* without overflow checks.
InitBmp ==
  /\ PipelineUnused
  /\ FitUnused
  /\ TransformUnused
  /\ FilterUnused
  /\ ResizeUnused
  /\ EncodeUnused
  /\ \E d \in BmpInputs :
       bmp = [op |-> "none", data |-> d, checks |-> FALSE, out |-> BmpErr("")]

Decode ==
  /\ bmp.op = "none"
  /\ \E overflowChecks \in BOOLEAN :
       bmp' = [bmp EXCEPT !.op = "decode_bmp", !.checks = overflowChecks,
                          !.out = DecodeBmp(bmp.data, overflowChecks)]
  /\ UNCHANGED <<pipeVars, fitVars, tVars, flt, rsz, enc>>

NextBmp == Decode

SpecBmp == InitBmp /\ [][NextBmp]_vars

\* ---------------------------------------------- resize_image step by step

\* The source buffers: the well-formed images of both palettes and, for
\* each image that has pixels, the buffer that is one pixel short.
ResizeSources ==
  LET ims == ImagesUpTo(MaxPixels) \cup AlphaImagesUpTo(MaxPixels)
  IN ims \cup { Img(SubSeq(im.data, 1, Len(im.data) - 4), im.w, im.h) :
                  im \in { i \in ImagesUpTo(MaxPixels) : Len(i.data) > 0 } }

\* Each behaviour draws the arguments of one call of resize_image.
InitResize ==
  /\ PipelineUnused
  /\ FitUnused
  /\ TransformUnused
  /\ FilterUnused
  /\ BmpUnused
  /\ EncodeUnused
  /\ \E im \in ResizeSources, dw \in 0..MaxTarget, dh \in 0..MaxTarget, filter \in FilterNames :
       rsz = [pc |-> "check", data |-> im.data, sw |-> im.w, sh |-> im.h,
              dw |-> dw, dh |-> dh, filter |-> filter,
              src |-> <<>>, alg |-> "", dst |-> <<>>, steps |-> <<>>,
              crate |-> "ok", result |-> ErrData("")]

\* The dimension check.
RCheck ==
  /\ rsz.pc = "check"
  /\ rsz' = IF rsz.sw = 0 \/ rsz.sh = 0 \/ rsz.dw = 0 \/ rsz.dh = 0
            THEN [rsz EXCEPT !.pc = "failed", !.result = ErrData("Invalid dimensions")]
            ELSE [rsz EXCEPT !.pc = "from_vec_u8"]
  /\ UNCHANGED <<pipeVars, fitVars, tVars, flt, bmp, enc>>

\* Image::from_vec_u8, its error returned by `?`: the source wrapper needs
\* sw * sh * 4 bytes, and may reject a buffer of that length too.
RFromVec ==
  /\ rsz.pc = "from_vec_u8"
  /\ IF Len(rsz.data) < rsz.sw * rsz.sh * 4
     THEN rsz' = [rsz EXCEPT !.pc = "failed",
                             !.result = ErrData("Failed to create source image")]
     ELSE \/ rsz' = [rsz EXCEPT !.pc = "multiply_alpha", !.src = rsz.data]
          \/ rsz' = [rsz EXCEPT !.pc = "failed", !.crate = "from_vec_u8",
                                !.result = ErrData(CrateError("from_vec_u8"))]
  /\ UNCHANGED <<pipeVars, fitVars, tVars, flt, bmp, enc>>

\* The call with the premultiplication left out.
RMultiplyAlphaSkipped ==
  /\ rsz.pc = "multiply_alpha"
  /\ rsz' = [rsz EXCEPT !.pc = "resize"]
  /\ UNCHANGED <<pipeVars, fitVars, tVars, flt, bmp, enc>>

\* mul_div.multiply_alpha(&src_image, &mut src_premultiplied), its error
\* returned by `?`.
RMultiplyAlpha ==
  /\ rsz.pc = "multiply_alpha"
  /\ \/ rsz' = [rsz EXCEPT !.pc = "resize", !.src = MultiplyAlpha(rsz.src),
                           !.steps = Append(rsz.steps, "premultiply")]
     \/ rsz' = [rsz EXCEPT !.pc = "failed", !.crate = "multiply_alpha",
                           !.result = ErrData(CrateError("multiply_alpha"))]
  /\ UNCHANGED <<pipeVars, fitVars, tVars, flt, bmp, enc>>

\* The match on the filter name and resizer.resize(&src_premultiplied, ...),
\* its error returned by `?`.
RResize ==
  /\ rsz.pc = "resize"
  /\ \/ rsz' = [rsz EXCEPT !.pc = "divide_alpha", !.alg = ResizeAlg(rsz.filter),
                           !.dst = Resample(rsz.src, rsz.sw, rsz.sh, rsz.dw, rsz.dh,
                                            ResizeAlg(rsz.filter)),
                           !.steps = Append(rsz.steps, "resample")]
     \/ rsz' = [rsz EXCEPT !.pc = "failed", !.alg = ResizeAlg(rsz.filter),
                           !.crate = "resize",
                           !.result = ErrData(CrateError("resize"))]
  /\ UNCHANGED <<pipeVars, fitVars, tVars, flt, bmp, enc>>

\* mul_div.divide_alpha(&dst_image, &mut dst_final), its error returned by
\* `?`, and the return.
RDivideAlpha ==
  /\ rsz.pc = "divide_alpha"
  /\ \/ rsz' = [rsz EXCEPT !.pc = "done", !.result = OkData(DivideAlpha(rsz.dst)),
                           !.steps = Append(rsz.steps, "unpremultiply")]
     \/ rsz' = [rsz EXCEPT !.pc = "failed", !.crate = "divide_alpha",
                           !.result = ErrData(CrateError("divide_alpha"))]
  /\ UNCHANGED <<pipeVars, fitVars, tVars, flt, bmp, enc>>

NextResize ==
  \/ RCheck
  \/ RFromVec
  \/ RMultiplyAlpha
  \/ RResize
  \/ RDivideAlpha

SpecResize == InitResize /\ [][NextResize]_vars

\* ------------------------------------------------ the encoders on their own

\* Each behaviour draws a format, a buffer of any length, dimensions of
\* 0..MaxTarget and the panic strategy of the build, and calls the format's
\* encoder once.
InitEncode ==
  /\ PipelineUnused
  /\ FitUnused
  /\ TransformUnused
  /\ FilterUnused
  /\ BmpUnused
  /\ ResizeUnused
  /\ \E format \in Formats, n \in 0..MaxEncLen, iw \in 0..MaxTarget, ih \in 0..MaxTarget,
        panicStrategy \in PanicStrategies :
       enc = [op |-> "none", format |-> format, data |-> [i \in 1..n |-> 255],
              w |-> iw, h |-> ih, panicStrategy |-> panicStrategy, out |-> NoResult]

\* The call of the encoder; codec is what the external codec does.
EncodeCall ==
  /\ enc.op = "none"
  /\ \E codec \in CodecOutcomes :
       enc' = [enc EXCEPT !.op = "encode",
                          !.out = Encode(enc.format, enc.data, enc.w, enc.h, codec,
                                         enc.panicStrategy)]
  /\ UNCHANGED <<pipeVars, fitVars, tVars, flt, bmp, rsz>>

NextEncode == EncodeCall

SpecEncode == InitEncode /\ [][NextEncode]_vars

\* ======================================================= claims: pipeline

\* The place of each stage in the order the specification fixes.
Rank(s) ==
  CASE s = "none" -> 0
    [] s = "auto_trim" -> 1
    [] s = "crop" -> 2
    [] s = "fit" -> 3
    [] s = "resample" -> 4
    [] s = "fit_crop" -> 5
    [] s = "rotate" -> 6
    [] s = "flip_h" -> 7
    [] s = "flip_v" -> 8
    [] s = "sharpen" -> 9
    [] s = "encode" -> 10

\* C1: in every run of process_image the stages that run do so in the order
\* auto-trim, user crop, fit calculation, resample, fit-mode crop, rotate,
\* horizontal flip, vertical flip, sharpen, encode: a stage that runs has a
\* later place than the stage that ran before it, whatever the options; and
\* a run that completes ended with the encoder.
C1_StageOrder ==
  /\ [][stage' # stage => Rank(stage) < Rank(stage')]_vars
  /\ [](pc = "done" => stage = "encode" /\ result.tag = "ok")

\* C1 witness: a completed run whose last stage was the encoder.
C1_Witness == pc = "done" /\ stage = "encode" /\ result.bytes /\ w = 2 /\ h = 1

\* C2: when the resample step is given a zero source or destination
\* dimension the pipeline has failed with that step's error ("Invalid
\* dimensions"), a failed pipeline returned an error and no bytes (the
\* error of the resample step, of the encoder, or of the configuration
\* before any stage ran), and no step is taken after a failure (no later
\* stage runs).
C2_FailFast ==
  /\ [][pc = "resample" /\ (w = 0 \/ h = 0 \/ fit.w = ToU32(0) \/ fit.h = ToU32(0))
          => pc' = "failed" /\ result' = ErrResult("Invalid dimensions")]_vars
  /\ [](pc = "failed" => result.tag = "err" /\ ~result.bytes
                          /\ stage \in {"none", "resample", "encode"}
                          /\ (stage = "none" <=> result.err \in ConfigErrors))
  /\ [][pc # "failed"]_vars

\* C2 witness: resample failed on a zero destination width of a non-empty
\* image, with a fit-mode crop, the transforms, sharpen and encode not run.
C2_Witness ==
  /\ pc = "failed" /\ stage = "resample"
  /\ w > 0 /\ h > 0 /\ fit.w = ToU32(0) /\ fit.h # ToU32(0)
  /\ result = ErrResult("Invalid dimensions")

\* C3: for a well-formed input, user crop regions inside the current image
\* and positive resize targets, no stage before the encoder aborts and after
\* every stage the buffer carried on has length width * height * 4, the
\* image handed to the encoder included.
C3_BufferLength ==
  inb => ((pc = "panicked" => stage = "encode") /\ Len(data) = w * h * 4)

\* C3 witness: a non-empty, non-square image is about to be encoded, every
\* option having met the precondition.
C3_Witness == inb /\ pc = "encode" /\ stage = "sharpen" /\ w = 1 /\ h = 2

\* The stages the claim C4 names.
C4Stages == {"auto_trim", "crop", "resample", "rotate", "flip_h", "flip_v", "sharpen"}

\* C4 as stated: every stage that receives an image with width = 0 or
\* height = 0 fails with the InvalidDimension error.
C4_Original ==
  [][(w = 0 \/ h = 0) /\ stage' # stage /\ stage' \in C4Stages
       => pc' = "failed" /\ result' = ErrResult("Invalid dimensions")]_vars

\* C4 as amended: of the stages, only resize fails with the InvalidDimension
\* error on an image with width = 0 or height = 0; auto-trim, rotate, the
\* flips and sharpen return the zero-area image (the same empty buffer, the
\* dimensions kept or swapped), and the user crop returns no error value.
C4_ZeroArea ==
  [][(w = 0 \/ h = 0) /\ stage' # stage /\ stage' \in C4Stages
       => CASE stage' = "resample" ->
                 pc' = "failed" /\ result' = ErrResult("Invalid dimensions")
            [] stage' = "crop" -> result'.tag # "err"
            [] OTHER ->
                 /\ pc' \notin {"failed", "panicked"}
                 /\ result' = NoResult
                 /\ data' = data
                 /\ {w', h'} = {w, h}]_vars

\* C4 witness: the transforms returned an image of width 0 and height 2.
C4_Witness == pc = "sharpen" /\ stage = "flip_v" /\ w = 0 /\ h = 2 /\ data = <<>>

\* C5 as stated: the crop stage never ends in an abort.
C5_NoAbort == ~(pc = "panicked" /\ stage = "crop")

\* ================================================ claims: fit calculator

\* The arguments select the default arm (Contain).
IsContainMode == fitIn.mode \notin {"fill", "cover", "outside"}

\* The arguments have srcW, srcH > 0.
PositiveSource == fitIn.sw >= 1 /\ fitIn.sh >= 1

\* What the claims say of a Contain result.
ContainFits ==
  /\ fitOut.crop = NoCrop
  /\ Val(fitOut.w) <= fitIn.tw
  /\ Val(fitOut.h) <= fitIn.th
  /\ (Val(fitOut.w) = fitIn.tw \/ Val(fitOut.h) = fitIn.th)

\* C6 as stated: for all sources > 0 and all targets, Contain returns
\* (resultW, resultH, None) with resultW <= tW, resultH <= tH and one of
\* them equal to its target.
C6_Original == (fitIn.done /\ PositiveSource /\ IsContainMode) => ContainFits

\* C6 as amended: the same for all targets tW, tH >= 1.
C6_ContainFits ==
  (fitIn.done /\ PositiveSource /\ IsContainMode /\ fitIn.tw >= 1 /\ fitIn.th >= 1)
    => ContainFits

\* C6 witness: an unrecognized mode string letterboxed a 5 x 3 source into
\* a 4 x 6 target.
C6_Witness ==
  /\ fitIn.done /\ fitIn.mode = "bogus"
  /\ fitIn.sw = 5 /\ fitIn.sh = 3 /\ fitIn.tw = 4 /\ fitIn.th = 6
  /\ fitOut.w = ToU32(4) /\ fitOut.h = ToU32(2)

\* k is an integer nearest to a / b (a >= 0, b > 0).
IsNearest(k, a, b) == 2 * k * b - b <= 2 * a /\ 2 * a <= 2 * k * b + b

\* round(src * max(tW/srcW, tH/srcH)) for the arguments drawn, evaluated in
\* f64 as the formula is written: the quotients, their maximum, the product
\* with src, the rounding.
CoverScaled(src) ==
  Val(ScaleRound(src, FMax(FDiv(fitIn.tw, fitIn.sw), FDiv(fitIn.th, fitIn.sh))))

\* C7: for sources > 0, in Cover mode the crop region has exactly the
\* target's width and height and is centred: cropX = (scaledW - tW) / 2 and
\* cropY = (scaledH - tH) / 2 in integer division, scaledW and scaledH being
\* round(src * max(tW/srcW, tH/srcH)) (in f64; an integer nearest to the real
\* product) and not below the target.
C7_CoverCrop ==
  (fitIn.done /\ PositiveSource /\ fitIn.mode = "cover") =>
    LET scaledW == CoverScaled(fitIn.sw)
        scaledH == CoverScaled(fitIn.sh)
        byWidth == fitIn.tw * fitIn.sh >= fitIn.th * fitIn.sw
        num == IF byWidth THEN fitIn.tw ELSE fitIn.th
        den == IF byWidth THEN fitIn.sw ELSE fitIn.sh
    IN /\ fitOut.crop.some
       /\ fitOut.crop.w = fitIn.tw
       /\ fitOut.crop.h = fitIn.th
       /\ IsNearest(scaledW, fitIn.sw * num, den)
       /\ IsNearest(scaledH, fitIn.sh * num, den)
       /\ scaledW >= fitIn.tw
       /\ scaledH >= fitIn.th
       /\ fitOut.crop.x = (scaledW - fitIn.tw) \div 2
       /\ fitOut.crop.y = (scaledH - fitIn.th) \div 2

\* C7 witness: an 11 x 22 source covering 5 x 15 is scaled by 15/22 to
\* 7 x 15 (11 * 15/22 is 7.5, and below it in f64) and the crop is 5 x 15 at
\* (1, 0).
C7_Witness ==
  /\ fitIn.done /\ fitIn.mode = "cover"
  /\ fitIn.sw = 11 /\ fitIn.sh = 22 /\ fitIn.tw = 5 /\ fitIn.th = 15
  /\ fitOut = [w |-> ToU32(7), h |-> ToU32(15), crop |-> SomeCrop(1, 0, 5, 15)]

\* C8 as stated: in every fit mode both scaled dimensions are >= 1, also
\* when a target dimension is 0.
C8_Original ==
  (fitIn.done /\ PositiveSource) => (fitOut.w # ToU32(0) /\ fitOut.h # ToU32(0))

\* C8 as amended: in Cover, Outside and Contain (and any unrecognized mode)
\* both scaled dimensions are >= 1, also when a target dimension is 0; Fill
\* returns the target dimensions as they are, 0 included.
C8_ScaledFloor ==
  (fitIn.done /\ PositiveSource) =>
    IF fitIn.mode = "fill"
    THEN fitOut.w = ToU32(fitIn.tw) /\ fitOut.h = ToU32(fitIn.th)
    ELSE fitOut.w # ToU32(0) /\ fitOut.h # ToU32(0)

\* C8 witness: Contain with a target width of 0 returned 1 x 1.
C8_Witness ==
  /\ fitIn.done /\ PositiveSource
  /\ fitIn.mode = "contain" /\ fitIn.tw = 0 /\ fitIn.th = 3
  /\ fitOut.w = ToU32(1) /\ fitOut.h = ToU32(1)

\* ===================================================== claims: transforms

\* C9: for every well-formed image, rotating by 180 twice, flipping
\* horizontally twice, and rotating by 270 and then by 90 each give the
\* image back, bytes and (width, height).
C9_RoundTrips ==
  LET r180 == Rotate180(tImg.data, tImg.w, tImg.h)
      fh == FlipHorizontal(tImg.data, tImg.w, tImg.h)
      r270 == Rotate270Cw(tImg.data, tImg.w, tImg.h)
  IN /\ Rotate180(r180.data, r180.w, r180.h) = tImg
     /\ FlipHorizontal(fh.data, fh.w, fh.h) = tImg
     /\ Rotate90Cw(r270.data, r270.w, r270.h) = tImg

\* C9 witness: rotate_270_cw turned a 3 x 2 image of two colours into a
\* different 2 x 3 image, which rotate_90_cw turns back.
C9_Witness ==
  /\ tOp = <<"rotate_270_cw">>
  /\ tPrev.w = 3 /\ tPrev.h = 2 /\ tImg.w = 2 /\ tImg.h = 3
  /\ tImg.data # tPrev.data
  /\ Rotate90Cw(tImg.data, tImg.w, tImg.h) = tPrev

\* The four bytes of the pixel (x, y) of an image.
PixelAt(im, x, y) == SubSeq(im.data, (y * im.w + x) * 4 + 1, (y * im.w + x) * 4 + 4)

\* Where the specification sends the pixel (x, y) of a iw x ih image under a
\* rotation: <<x', y'>>.
RotatedTo(rotate, iw, ih, x, y) ==
  CASE rotate = 90 -> <<ih - 1 - y, x>>
    [] rotate = 180 -> <<iw - 1 - x, ih - 1 - y>>
    [] rotate = 270 -> <<y, iw - 1 - x>>
    [] OTHER -> <<x, y>>

\* C10: apply_transforms rotates first (at most once; a rotate value other
\* than 90, 180, 270 does not rotate), then flips horizontally, then
\* vertically: the output has width and height swapped exactly when rotate
\* is 90 or 270, and the pixel (x, y) of the input is found where the
\* rotation, then the horizontal flip, then the vertical flip send it.
C10_RotateThenFlip ==
  tOp[1] = "apply_transforms" =>
    LET rotate == tOp[2]
        flip_h == tOp[3]
        flip_v == tOp[4]
        swap == rotate \in {90, 270}
        ow == IF swap THEN tPrev.h ELSE tPrev.w
        oh == IF swap THEN tPrev.w ELSE tPrev.h
    IN /\ tImg.w = ow
       /\ tImg.h = oh
       /\ Len(tImg.data) = ow * oh * 4
       /\ \A x \in 0..(tPrev.w - 1), y \in 0..(tPrev.h - 1) :
            LET r == RotatedTo(rotate, tPrev.w, tPrev.h, x, y)
                fx == IF flip_h THEN ow - 1 - r[1] ELSE r[1]
                fy == IF flip_v THEN oh - 1 - r[2] ELSE r[2]
            IN PixelAt(tImg, fx, fy) = PixelAt(tPrev, x, y)

\* C10 witness: a 3 x 2 image of two colours went through rotate 90 and both
\* flips and came out 2 x 3.
C10_Witness ==
  /\ tOp = <<"apply_transforms", 90, TRUE, TRUE>>
  /\ tPrev.w = 3 /\ tPrev.h = 2 /\ tImg.w = 2 /\ tImg.h = 3
  /\ tImg.data # tPrev.data
  /\ PixelAt(tPrev, 0, 0) # PixelAt(tPrev, 2, 1)

\* ======================================================== claims: filters

\* C11: blur returns its input, byte for byte, whenever the radius is 0 or
\* the width or the height is under 3, for every well-formed image.
C11_BlurIdentity ==
  (flt.op[1] = "blur" /\ (flt.op[2] = 0 \/ flt.img.w < 3 \/ flt.img.h < 3))
    => flt.out = flt.img

\* Blur with a positive radius was applied to a 2x2 image of two colours, and
\* with radius 0 to a 3x3 one.
C11_Witness ==
  /\ flt.op[1] = "blur"
  /\ \/ flt.op[2] = 1 /\ flt.img.w = 2 /\ flt.img.h = 2
        /\ PixelAt(flt.img, 0, 0) # PixelAt(flt.img, 1, 1)
     \/ flt.op[2] = 0 /\ flt.img.w = 3 /\ flt.img.h = 3
        /\ PixelAt(flt.img, 0, 0) # PixelAt(flt.img, 1, 1)
  /\ flt.out = flt.img

\* The bytes of an image that belong to the RGB channels of interior pixels.
InteriorRgb(im, i) ==
  LET p == (i - 1) \div 4
      x == p % im.w
      y == p \div im.w
  IN (i - 1) % 4 < 3 /\ 1 <= x /\ x < im.w - 1 /\ 1 <= y /\ y < im.h - 1

\* C12: sharpen returns the whole image unchanged when amount <= 0 or a side
\* is under 3; for every amount the border pixels and every alpha byte are
\* unchanged: only RGB bytes of interior pixels can differ from the input.
C12_SharpenFrame ==
  flt.op[1] = "sharpen" =>
    /\ flt.out.w = flt.img.w /\ flt.out.h = flt.img.h
    /\ Len(flt.out.data) = Len(flt.img.data)
    /\ (flt.op[2] <= 0 \/ flt.img.w < 3 \/ flt.img.h < 3) => flt.out = flt.img
    /\ \A i \in 1..Len(flt.img.data) :
         flt.out.data[i] # flt.img.data[i] => InteriorRgb(flt.img, i)

\* Sharpen with a positive amount changed the centre pixel of a 3x3 image
\* and left its length and the other pixels as they were.
C12_Witness ==
  /\ flt.op[1] = "sharpen" /\ flt.op[2] > 0
  /\ flt.img.w = 3 /\ flt.img.h = 3
  /\ PixelAt(flt.out, 1, 1) # PixelAt(flt.img, 1, 1)
  /\ PixelAt(flt.out, 0, 1) = PixelAt(flt.img, 0, 1)

\* An image whose pixels all have the RGB of its first pixel.
UniformRgb(im) ==
  \A p \in 0..(im.w * im.h - 1) : \A c \in 1..3 : im.data[p * 4 + c] = im.data[c]

\* C13: for every image whose pixels all have the same RGB colour, of width
\* and height >= 1, and every threshold, detect_content_bounds returns None.
C13_UniformNone ==
  (flt.op[1] = "detect_content_bounds" /\ flt.img.w >= 1 /\ flt.img.h >= 1
     /\ UniformRgb(flt.img))
    => flt.bounds = NoCrop

\* detect_content_bounds ran with threshold 0 on a uniform-RGB image of
\* several pixels whose alpha is not uniform.
C13_Witness ==
  /\ flt.op = <<"detect_content_bounds", 0>>
  /\ flt.img.w >= 2 /\ flt.img.h >= 2
  /\ UniformRgb(flt.img)
  /\ \E p \in 1..(flt.img.w * flt.img.h - 1) : flt.img.data[p * 4 + 4] # flt.img.data[4]
  /\ flt.bounds = NoCrop

\* The RGB bytes of pixel (x, y).
RgbAt(im, x, y) == SubSeq(im.data, (y * im.w + x) * 4 + 1, (y * im.w + x) * 4 + 3)

\* An image made of a 1-pixel border of one colour around a uniform interior
\* of another colour.
Bordered(im) ==
  /\ im.w >= 3 /\ im.h >= 3
  /\ \A x \in 0..(im.w - 1), y \in 0..(im.h - 1) :
       IF x = 0 \/ y = 0 \/ x = im.w - 1 \/ y = im.h - 1
       THEN RgbAt(im, x, y) = RgbAt(im, 0, 0)
       ELSE RgbAt(im, x, y) = RgbAt(im, 1, 1)
  /\ RgbAt(im, 0, 0) # RgbAt(im, 1, 1)

\* C14: on an image made of a 1-pixel border of one colour around a uniform
\* interior of a different colour, auto_trim with threshold 0 returns a
\* strictly smaller image (the interior, a proper sub-rectangle), and with
\* threshold 255 it returns the original pixels and dimensions.
C14_AutoTrimBorder ==
  (flt.op[1] = "auto_trim" /\ Bordered(flt.img)) =>
    /\ flt.op[2] = 0 =>
         /\ flt.out.w = flt.img.w - 2 /\ flt.out.h = flt.img.h - 2
         /\ flt.out.w * flt.out.h < flt.img.w * flt.img.h
         /\ Len(flt.out.data) = flt.out.w * flt.out.h * 4
         /\ \A x \in 0..(flt.out.w - 1), y \in 0..(flt.out.h - 1) :
              PixelAt(flt.out, x, y) = PixelAt(flt.img, x + 1, y + 1)
    /\ flt.op[2] = 255 => flt.out = flt.img

\* auto_trim with threshold 0 trimmed a bordered 4x3 image to its two
\* interior pixels.
C14_Witness ==
  /\ flt.op = <<"auto_trim", 0>>
  /\ Bordered(flt.img)
  /\ flt.img.w = 4 /\ flt.img.h = 3
  /\ flt.out = Img(PixelAt(flt.img, 1, 1) \o PixelAt(flt.img, 2, 1), 2, 1)

\* ===================================================== claims: decode_bmp

\* C15 as stated: every input shorter than 54 bytes fails with "BMP file too
\* small", and every input that does not start with "BM" fails with "Not a
\* valid BMP file".
C15_Original ==
  bmp.op = "decode_bmp" =>
    /\ Len(bmp.data) < 54 => bmp.out = BmpErr("BMP file too small")
    /\ ~IsBmp(bmp.data) => bmp.out = BmpErr("Not a valid BMP file")

\* C15: every input shorter than 54 bytes fails with "BMP file too small",
\* whatever its first bytes are, and every input of at least 54 bytes that
\* does not start with "BM" fails with "Not a valid BMP file".
C15_HeaderChecks ==
  bmp.op = "decode_bmp" =>
    /\ Len(bmp.data) < 54 => bmp.out = BmpErr("BMP file too small")
    /\ (Len(bmp.data) >= 54 /\ ~IsBmp(bmp.data)) => bmp.out = BmpErr("Not a valid BMP file")

\* A 53-byte input that starts with "PN" was rejected as too small.
C15_Witness ==
  /\ bmp.op = "decode_bmp"
  /\ Len(bmp.data) = 53 /\ bmp.data[1] = 80 /\ bmp.data[2] = 78
  /\ bmp.out = BmpErr("BMP file too small")

\* The header fields of the decoded input, as the format defines them.
HdrOffset == U32Le(bmp.data, 10)
HdrWidth == I32Le(bmp.data, 18)
HdrHeight == I32Le(bmp.data, 22)
HdrBits == U16Le(bmp.data, 28)
HdrCompression == U32Le(bmp.data, 30)
HdrAccepted ==
  /\ bmp.op = "decode_bmp"
  /\ Len(bmp.data) >= 54
  /\ IsBmp(bmp.data)
  /\ HdrCompression \in {0, 3}

\* C16: every input of at least 54 bytes with valid magic and accepted
\* compression whose bits-per-pixel field is neither 24 nor 32 fails with
\* "Unsupported BMP bit depth", whatever the width, height and data length.
C16_UnsupportedDepth ==
  (HdrAccepted /\ HdrBits \notin {24, 32}) => bmp.out = BmpErr("Unsupported BMP bit depth")

\* The stride of the format: ceil(width * bytesPerPixel / 4) * 4.
Stride == ((UnsignedAbs(HdrWidth) * (HdrBits \div 8) + 3) \div 4) * 4

\* Some pixel of the geometry has bytes past the end of the input: the last
\* pixel of the last stored row does.
SomePixelPastEnd ==
  /\ HdrWidth # 0 /\ HdrHeight # 0
  /\ BmpTruncated(bmp.data, HdrOffset, Stride, HdrBits \div 8,
                  UnsignedAbs(HdrHeight) - 1, UnsignedAbs(HdrWidth) - 1)

\* C17: for every header of 24 or 32 bits per pixel and every input length,
\* a pixel whose bytes would lie past the end of the input makes the decode
\* fail with "BMP data truncated", with no such byte read and no pixels
\* returned.
C17_TruncatedReads ==
  (HdrAccepted /\ HdrBits \in {24, 32} /\ SomePixelPastEnd)
    => bmp.out = BmpErr("BMP data truncated")

\* C18: the output is top-down RGBA8: the returned dimensions are the
\* absolute values of the header fields; output row y comes from stored row
\* |height|-1-y when the height field is positive and from stored row y
\* when it is negative, with the rows Stride bytes apart; stored B,G,R(,A)
\* becomes R,G,B,A with A = 255 for 24-bit input; the 1x1 24-bit image with
\* pixel bytes 0,0,255 decodes to 255,0,0,255.  An input whose geometry
\* (sides below BigSide) lies inside it does decode.
C18_TopDownRgba ==
  /\ (HdrAccepted /\ HdrBits \in {24, 32} /\ ~SomePixelPastEnd
        /\ UnsignedAbs(HdrWidth) < BigSide /\ UnsignedAbs(HdrHeight) < BigSide)
       => bmp.out.tag = "ok"
  /\ (bmp.op = "decode_bmp" /\ bmp.out.tag = "ok" /\ HdrBits \in {24, 32}) =>
       /\ bmp.out.w = UnsignedAbs(HdrWidth)
       /\ bmp.out.h = UnsignedAbs(HdrHeight)
       /\ Len(bmp.out.pixels) = bmp.out.w * bmp.out.h * 4
       /\ \A x \in 0..(bmp.out.w - 1), y \in 0..(bmp.out.h - 1) :
            LET row == IF HdrHeight > 0 THEN bmp.out.h - 1 - y ELSE y
                src == HdrOffset + row * Stride + x * (HdrBits \div 8)
            IN SubSeq(bmp.out.pixels, (y * bmp.out.w + x) * 4 + 1, (y * bmp.out.w + x) * 4 + 4)
                 = << bmp.data[src + 3], bmp.data[src + 2], bmp.data[src + 1],
                      IF HdrBits = 24 THEN 255 ELSE bmp.data[src + 4] >>
  /\ (bmp.op = "decode_bmp" /\ HdrAccepted /\ HdrBits = 24 /\ HdrOffset = 54
        /\ UnsignedAbs(HdrWidth) = 1 /\ UnsignedAbs(HdrHeight) = 1
        /\ Len(bmp.data) >= 57 /\ SubSeq(bmp.data, 55, 57) = <<0, 0, 255>>)
       => bmp.out = BmpOk(<<255, 0, 0, 255>>, 1, 1)

\* A bottom-up 2x2 24-bit image (rows of 6 bytes padded to 8) was decoded:
\* its first output pixel is the first pixel of the second stored row.
C18_Witness ==
  /\ bmp.op = "decode_bmp" /\ bmp.out.tag = "ok"
  /\ HdrWidth = 2 /\ HdrHeight = 2 /\ HdrBits = 24 /\ HdrOffset = 54
  /\ SubSeq(bmp.out.pixels, 1, 4)
       = << bmp.data[54 + 8 + 3], bmp.data[54 + 8 + 2], bmp.data[54 + 8 + 1], 255 >>

\* ==================================================== claims: resize_image

\* k is the premultiplied form of d: alpha kept, each RGB byte the nearest
\* integer to byte * alpha / 255.
IsPremultiplied(k, d) ==
  /\ Len(k) = Len(d)
  /\ \A i \in 1..Len(d) :
       LET a == d[i + 3 - ((i - 1) % 4)]
       IN IF (i - 1) % 4 = 3 THEN k[i] = d[i]
          ELSE 2 * 255 * k[i] - 255 <= 2 * d[i] * a /\ 2 * d[i] * a <= 2 * 255 * k[i] + 255

\* C19: resize_image fails with "Invalid dimensions" when a source or
\* destination side is 0, before any step; otherwise, on a well-formed
\* image, it performs premultiply, resample, un-premultiply in this order
\* and returns the result, or returns the error of the crate call that
\* failed, no later step having run; the kernel runs on the premultiplied
\* pixels only; an unrecognized kernel name selects Lanczos3.
C19_ResizeOrder ==
  rsz.pc # "unused" =>
    /\ (rsz.sw = 0 \/ rsz.sh = 0 \/ rsz.dw = 0 \/ rsz.dh = 0) =>
         /\ rsz.pc \in {"check", "failed"}
         /\ rsz.pc = "failed" => rsz.result = ErrData("Invalid dimensions")
         /\ rsz.steps = <<>>
    /\ rsz.steps = SubSeq(<<"premultiply", "resample", "unpremultiply">>, 1, Len(rsz.steps))
    /\ rsz.pc = "failed" =>
         /\ ~rsz.result.ok
         /\ rsz.steps = CASE rsz.crate = "resize" -> <<"premultiply">>
                           [] rsz.crate = "divide_alpha" -> <<"premultiply", "resample">>
                           [] OTHER -> <<>>
         /\ rsz.crate # "ok" => rsz.result = ErrData(CrateError(rsz.crate))
    /\ Len(rsz.steps) >= 2 =>
         /\ IsPremultiplied(rsz.src, rsz.data)
         /\ rsz.dst = Resample(rsz.src, rsz.sw, rsz.sh, rsz.dw, rsz.dh, rsz.alg)
    /\ rsz.alg # "" =>
         /\ rsz.filter \notin {"Nearest", "CatmullRom", "Mitchell", "Bilinear"}
              => rsz.alg = "Lanczos3"
         /\ rsz.filter \in {"Nearest", "CatmullRom", "Mitchell", "Bilinear"}
              => rsz.alg = rsz.filter
    /\ (rsz.sw > 0 /\ rsz.sh > 0 /\ rsz.dw > 0 /\ rsz.dh > 0
          /\ Len(rsz.data) = rsz.sw * rsz.sh * 4 /\ rsz.pc = "failed") => rsz.crate # "ok"
    /\ rsz.pc \in {"done", "failed"} =>
         rsz.result = ResizeImage(rsz.data, rsz.sw, rsz.sh, ToU32(rsz.dw), ToU32(rsz.dh),
                                  rsz.filter, rsz.crate)
    /\ rsz.pc = "done" =>
         /\ Len(rsz.steps) = 3
         /\ rsz.crate = "ok"
         /\ Len(rsz.result.data) = rsz.dw * rsz.dh * 4

\* A call with an unrecognized kernel name on a semi-transparent image ran
\* its three steps, and the premultiplied pixels differ from the source's.
C19_Witness ==
  /\ rsz.pc = "done" /\ rsz.filter = "bogus" /\ rsz.alg = "Lanczos3"
  /\ rsz.steps = <<"premultiply", "resample", "unpremultiply">>
  /\ rsz.src # rsz.data
  /\ rsz.sw = 2 /\ rsz.dw = 1
  /\ rsz.result.ok

\* ======================================================== claims: encoders

\* C20: every encoder the pipeline dispatches to (JPEG, PNG, AVIF) returns
\* an error, without encoding, when the buffer length is not width*height*4.
C20_LengthValidated ==
  (enc.op = "encode" /\ Len(enc.data) # enc.w * enc.h * 4) => enc.out.tag = "err"

\* ======================================== claims: detect_content_bounds

\* The per-channel integer average of the four corner pixels of the image
\* the filter was applied to (channel c in 1..3).
CornerAverage(c) ==
  LET im == flt.img
  IN (RgbAt(im, 0, 0)[c] + RgbAt(im, im.w - 1, 0)[c] + RgbAt(im, 0, im.h - 1)[c]
        + RgbAt(im, im.w - 1, im.h - 1)[c]) \div 4

\* The pixels that are not background under the threshold passed: some RGB
\* channel differs from the corner average by more than the threshold.
ContentPixels ==
  { q \in (0..(flt.img.w - 1)) \X (0..(flt.img.h - 1)) :
      \E c \in 1..3 :
        \/ RgbAt(flt.img, q[1], q[2])[c] - CornerAverage(c) > flt.op[2]
        \/ CornerAverage(c) - RgbAt(flt.img, q[1], q[2])[c] > flt.op[2] }

\* The content reaches all four edges: its bounding box is the whole image.
ContentSpansImage ==
  /\ \E q \in ContentPixels : q[1] = 0
  /\ \E q \in ContentPixels : q[1] = flt.img.w - 1
  /\ \E q \in ContentPixels : q[2] = 0
  /\ \E q \in ContentPixels : q[2] = flt.img.h - 1

\* C21: with the background taken as the per-channel integer average of
\* the four corners and a pixel being background iff each of R, G, B is
\* within the threshold of it, detect_content_bounds returns exactly the
\* smallest rectangle enclosing all non-background pixels; it returns None
\* iff there is no such pixel or that rectangle is the whole image; a region
\* returned lies inside the image and is a proper sub-rectangle of it.
C21_ContentBounds ==
  (flt.op[1] = "detect_content_bounds" /\ flt.img.w >= 1 /\ flt.img.h >= 1) =>
    LET b == flt.bounds
    IN /\ b.some <=> (ContentPixels # {} /\ ~ContentSpansImage)
       /\ ~b.some => b = NoCrop
       /\ b.some =>
            /\ \A q \in ContentPixels :
                 /\ b.x <= q[1] /\ q[1] < b.x + b.w
                 /\ b.y <= q[2] /\ q[2] < b.y + b.h
            /\ \E q \in ContentPixels : q[1] = b.x
            /\ \E q \in ContentPixels : q[1] = b.x + b.w - 1
            /\ \E q \in ContentPixels : q[2] = b.y
            /\ \E q \in ContentPixels : q[2] = b.y + b.h - 1
            /\ b.w >= 1 /\ b.h >= 1
            /\ b.x + b.w <= flt.img.w /\ b.y + b.h <= flt.img.h
            /\ b.w * b.h < flt.img.w * flt.img.h

\* detect_content_bounds found a region off the top-left corner in a 3x3
\* image whose corners are not all of one colour, with a threshold between
\* the two colours' distances from the corner average.
C21_Witness ==
  /\ flt.op = <<"detect_content_bounds", 120>>
  /\ flt.img.w = 3 /\ flt.img.h = 3
  /\ RgbAt(flt.img, 0, 0) # RgbAt(flt.img, 2, 2)
  /\ flt.bounds.some
  /\ flt.bounds.x >= 1 /\ flt.bounds.y >= 1
  /\ Cardinality(ContentPixels) >= 2

\* ============================================= claims: the Cover fit crop

\* The resize block of process_image holds a Cover result for targets >= 1
\* computed from a source with sides >= 1: before resampling, or after it
\* (resampling succeeds only on such a source).
CoverPending ==
  /\ fit.crop.some
  /\ fit.crop.w >= 1 /\ fit.crop.h >= 1
  /\ \/ pc = "resample" /\ w >= 1 /\ h >= 1
     \/ pc = "fit_crop"

\* C22: for all srcW, srcH, tW, tH >= 1 the Cover result satisfies cropX +
\* tW <= scaledW and cropY + tH <= scaledH, so the fit-mode crop that
\* process_image applies right after resampling reads inside the resampled
\* buffer only, does not abort, and the image leaving the resize stage has
\* dimensions exactly (tW, tH).
C22_CoverCropInside ==
  /\ [](CoverPending =>
          /\ fit.crop.x + fit.crop.w <= Val(fit.w)
          /\ fit.crop.y + fit.crop.h <= Val(fit.h))
  /\ []((CoverPending /\ pc = "fit_crop") =>
          /\ w = Val(fit.w) /\ h = Val(fit.h)
          /\ Len(data) = Val(fit.w) * Val(fit.h) * 4)
  /\ [][(CoverPending /\ pc = "fit_crop") =>
          /\ pc' = After("fit_crop")
          /\ w' = fit.crop.w /\ h' = fit.crop.h
          /\ Len(data') = fit.crop.w * fit.crop.h * 4
          /\ \A x \in 0..(fit.crop.w - 1), y \in 0..(fit.crop.h - 1) :
               PixelAt(Img(data', w', h'), x, y)
                 = PixelAt(Img(data, w, h), x + fit.crop.x, y + fit.crop.y)]_vars

\* A Cover result whose crop starts off the left edge of the scaled image
\* was resampled and is about to be cropped.
C22_Witness ==
  /\ pc = "fit_crop" /\ stage = "resample"
  /\ fit.crop.some
  /\ fit.crop.x >= 1
  /\ fit.crop.w >= 1 /\ fit.crop.h = 2
  /\ fit.crop.x + fit.crop.w < Val(fit.w)
  /\ Len(data) = Val(fit.w) * Val(fit.h) * 4

====
